---- MODULE Spec2Model ----
(***************************************************************************)
(* A model of the x86-32 lowering backend of Subzero                       *)
(* (src/src/IceTargetLoweringX8632.cpp).                                   *)
(*                                                                         *)
(* The backend is modelled as several state machines over one set of       *)
(* variables, one specification per part of the backend:                   *)
(*   Spec       the pass drivers translateO2 / translateOm1                *)
(*   SpecFrame  the frame layout of addProlog                              *)
(*   SpecFrameArgs  the same, for functions with arguments                 *)
(***************************************************************************)
EXTENDS Integers, Sequences, FiniteSets, TLC

VARIABLES
  optLevel,             \* Ctx->getOptLevel(): "O2" or "Om1"
  pc,                   \* position of the driver in its statement list; 0 = returned
  hasError,             \* Func->hasError()
  ran,                  \* the passes the driver has invoked so far, in order
  doNops,               \* shouldDoNopInsertion()
  Variables,            \* Func->getVariables(): the Variables, by index
  Args,                 \* Func->getArgs(): indices into Variables
  Insts,                \* the instruction list of the node being processed
  PhysicalRegisters,    \* TargetX8632::PhysicalRegisters: register -> Variable (0: NULL)
  Cur,                  \* Context.getCur(): the position in Insts of the instruction to lower
  LastCall,             \* the last call of a helper on its own: its operand, result and Variables before
  IsEbpBasedFrame,      \* TargetX8632::IsEbpBasedFrame
  NeedsStackAlignment,  \* TargetX8632::NeedsStackAlignment
  ComputedLiveRanges,   \* TargetX8632::ComputedLiveRanges
  CallsReturnsTwice,    \* Func->getCallsReturnsTwice()
  SpillAreaSizeBytes,   \* TargetX8632::SpillAreaSizeBytes
  RegsUsed,             \* TargetX8632::RegsUsed
  HasComputedFrame      \* TargetLowering::HasComputedFrame

drvVars == <<optLevel, pc, hasError, ran, doNops>>

funcVars == <<Variables, Args, Insts, PhysicalRegisters, Cur, LastCall>>

frameVars == <<IsEbpBasedFrame, NeedsStackAlignment, CallsReturnsTwice,
               SpillAreaSizeBytes, RegsUsed, HasComputedFrame>>

vars == <<optLevel, pc, hasError, ran, doNops, Variables, Args, Insts,
          PhysicalRegisters, Cur, LastCall,
          IsEbpBasedFrame, NeedsStackAlignment, ComputedLiveRanges,
          CallsReturnsTwice, SpillAreaSizeBytes, RegsUsed, HasComputedFrame>>

(***************************************************************************)
(* Types, registers and constants of the target.                           *)
(***************************************************************************)
X86_MAX_XMM_ARGS == 4
X86_STACK_ALIGNMENT_BYTES == 16
X86_RET_IP_SIZE_BYTES == 4
X86_LOG2_OF_MIN_STACK_SLOT_SIZE == 2
X86_LOG2_OF_MAX_STACK_SLOT_SIZE == 4

VectorTypes == {"v4i1", "v8i1", "v16i1", "v16i8", "v8i16", "v4i32", "v4f32"}

ScalarTypes == {"i1", "i8", "i16", "i32", "i64", "f32", "f64"}

isVectorType(ty) == ty \in VectorTypes

\* The byte size of a type (the type table of the IR).
typeWidthInBytes(ty) ==
  CASE ty \in {"i1", "i8"} -> 1
    [] ty = "i16" -> 2
    [] ty \in {"i32", "f32"} -> 4
    [] ty \in {"i64", "f64"} -> 8
    [] ty \in VectorTypes -> 16

\* The width of a type on the stack: its size rounded up to 4 bytes.
typeWidthInBytesOnStack(ty) == ((typeWidthInBytes(ty) + 3) \div 4) * 4

\* Register numbers, in the order of the register table.
Reg_eax == 0
Reg_ecx == 1
Reg_edx == 2
Reg_ebx == 3
Reg_esp == 4
Reg_ebp == 5
Reg_esi == 6
Reg_edi == 7
Reg_ah == 8
Reg_xmm0 == 9
Reg_NUM == 17
NoRegister == -1

Registers == 0..(Reg_NUM - 1)

XmmRegisters == Reg_xmm0..(Reg_xmm0 + 7)

\* The attributes of the register table.
ScratchRegs == {Reg_eax, Reg_ecx, Reg_edx} \cup XmmRegisters

CalleeSaves == {Reg_ebx, Reg_ebp, Reg_esi, Reg_edi}

\* The largest int32_t.  A 32-bit number stands as the int32_t of its bits:
\* the uint32_t values from 2^31 on are the negative numbers.
MaxInt32 == 2147483647

\* a + b in 32 bits: the sum modulo 2^32.
WrapAdd32(a, b) ==
  IF a > 0 /\ b > 0 /\ a > MaxInt32 - b
  THEN (a - MaxInt32 - 1) + (b - MaxInt32 - 1)
  ELSE IF a < 0 /\ b < 0 /\ a < (-MaxInt32 - 1) - b
  THEN (a + MaxInt32 + 1) + (b + MaxInt32 + 1)
  ELSE a + b

\* Value adjusted to the next highest multiple of Alignment (a power of 2):
\* (Value + Alignment - 1) & -Alignment in a uint32_t, where the sum wraps
\* around.
applyAlignment(Value, Alignment) ==
  LET sum == WrapAdd32(Value, Alignment - 1) IN sum - (sum % Alignment)

\* applyAlignment without the "+ Alignment - 1": rounds down.
\* Alignment to the width of a stack slot only.
applyStackAlignment_ToSlot(Value) == applyAlignment(Value, 4)

applyStackAlignment(Value) == applyAlignment(Value, X86_STACK_ALIGNMENT_BYTES)

(***************************************************************************)
(* Variables, operands and instructions.                                   *)
(***************************************************************************)
\* A Variable.  node = 0 stands for a NULL defining node (multi-block
\* lifetime); pref, lo and hi are indices into Variables, 0 for NULL.
\* hasOffset records that setStackOffset has been called on the Variable.
Var(ty, node) ==
  [ty |-> ty, regNum |-> NoRegister, weight |-> "One", isArg |-> FALSE,
   node |-> node, liveEmpty |-> FALSE, overlap |-> FALSE, pref |-> 0,
   lo |-> 0, hi |-> 0, stackOffset |-> 0, hasOffset |-> FALSE]

hasReg(v) == v.regNum # NoRegister

isMultiblockLife(v) == v.node = 0

NoOperand == [k |-> "None"]

VarOp(i) == [k |-> "Var", v |-> i]

ConstOp(ty, val) == [k |-> "Const", ty |-> ty, val |-> val]

\* OperandX8632Mem::create(Func, Ty, Base, Offset): base is an index into
\* Variables (0 for none), offset a number.
MemOp(ty, base, offset) ==
  [k |-> "Mem", ty |-> ty, base |-> base, index |-> 0, shift |-> 0,
   offset |-> offset]

\* A pseudo-instruction of a node's list.
Inst(op, dest, srcs) ==
  [op |-> op, dest |-> dest, srcs |-> srcs, deleted |-> FALSE]

\* A two-address instruction: its Dest is its first source as well.
Binop(op, dest, src) == Inst(op, dest, <<dest, src>>)

Iota(n) == [i \in 1..n |-> i]

\* The sorted sequence of a set of registers.
RegSeq(regs) == SelectSeq([i \in 1..Reg_NUM |-> i - 1], LAMBDA r : r \in regs)

\* A loop over the elements of seq from the k-th on: Op(st, x) is the state
\* after the body of the loop has run on x in the state st.  Each state is
\* computed once, before the next iteration starts.
RECURSIVE FoldSeq(_, _, _, _)
FoldSeq(Op(_, _), st, seq, k) ==
  IF k > Len(seq) THEN st
  ELSE CHOOSE r \in {FoldSeq(Op, next, seq, k + 1) : next \in {Op(st, seq[k])}} : TRUE

\* No helper has been called on its own.
NoCall == [call |-> "none"]

\* The function's Variables and the target's map of physical-register
\* Variables, as the value that the lowering helpers thread through.
FuncState(vs, pr) == [vs |-> vs, pr |-> pr]

NoPhysicalRegisters == [r \in Registers |-> 0]

\* getPhysicalRegister(RegNum): the Variable of the register, created on
\* first use (an i32 Variable with multi-block lifetime, pre-colored).
getPhysicalRegister(fs, RegNum) ==
  IF fs.pr[RegNum] # 0 THEN fs
  ELSE [vs |-> Append(fs.vs, [Var("i32", 0) EXCEPT !.regNum = RegNum]),
        pr |-> [fs.pr EXCEPT ![RegNum] = Len(fs.vs) + 1]]

getPhysicalRegisters(fs, regs) == FoldSeq(getPhysicalRegister, fs, regs, 1)

(***************************************************************************)
(* Lowering helpers.  A lowering context c holds the Variables (vs), the   *)
(* physical-register Variables (pr), the instructions inserted so far at   *)
(* the insertion point (insts), the node being lowered (node), the value   *)
(* the last helper returned (ret), and assertFailed: an assert of the      *)
(* helpers run so far does not hold; error: Func->setError was called;     *)
(* consumed: the number of instructions after the current one that the     *)
(* lowering marked deleted and stepped over (Context.advanceNext).         *)
(***************************************************************************)
LoweringContext(vs, pr, node) ==
  [vs |-> vs, pr |-> pr, insts |-> << >>, node |-> node, ret |-> NoOperand,
   assertFailed |-> FALSE, error |-> FALSE, consumed |-> 0]

\* Sequencing: K on the value of x, which is computed once.
Then(x, K(_)) == CHOOSE r \in {K(v) : v \in {x}} : TRUE

\* Context.insert(Inst)
Emit(c, inst) == [c EXCEPT !.insts = Append(@, inst)]

Return(c, op) == [c EXCEPT !.ret = op]

\* An i64 ConstantInteger, as the pair of its 32-bit halves.
Const64(lo, hi) == [k |-> "Const", ty |-> "i64", val |-> <<lo, hi>>]

FloatOp(ty) == [k |-> "Float", ty |-> ty]

RelocOp(name) == [k |-> "Reloc", ty |-> "i32", name |-> name]

UndefOp(ty) == [k |-> "Undef", ty |-> ty]

ConstantKinds == {"Const", "Float", "Reloc", "Undef"}

\* Operand::getType()
OperandType(vs, op) == IF op.k = "Var" THEN vs[op.v].ty ELSE op.ty

Legal_Reg == "Reg"
Legal_Imm == "Imm"
Legal_Mem == "Mem"
Legal_Reloc == "Reloc"
Legal_All == {Legal_Reg, Legal_Imm, Legal_Mem, Legal_Reloc}

\* With the physical-register Variable of RegNum as the returned value.
PhysicalRegister(c, RegNum) ==
  LET fs == getPhysicalRegister(FuncState(c.vs, c.pr), RegNum)
  IN [c EXCEPT !.vs = fs.vs, !.pr = fs.pr, !.ret = VarOp(fs.pr[RegNum])]

\* makeReg(Type, RegNum); the assert says that Type is not i64.
makeReg(c, Type, RegNum) ==
  [c EXCEPT !.vs = Append(@, [Var(Type, c.node) EXCEPT
                                !.weight = IF RegNum = NoRegister THEN "Inf" ELSE @,
                                !.regNum = RegNum]),
            !.ret = VarOp(Len(c.vs) + 1),
            !.assertFailed = @ \/ Type = "i64"]

copyToReg(c, Src, RegNum) ==
  Then(makeReg(c, OperandType(c.vs, Src), RegNum),
       LAMBDA c1 : Emit(c1, Inst(IF isVectorType(OperandType(c.vs, Src))
                                 THEN "movp" ELSE "mov", c1.ret, <<Src>>)))

makeVectorOfZeros(c, Ty, RegNum) ==
  Then(makeReg(c, Ty, RegNum),
       LAMBDA c1 : Emit(Emit(c1, Inst("FakeDef", c1.ret, << >>)),
                        Binop("pxor", c1.ret, c1.ret)))

\* A legalize() of a Variable that takes only a Variable with a register
\* number for one that is in a register.
legalizeVariable_IgnoresWeight(c, From, Allowed, AllowOverlap, RegNum) ==
  LET v == c.vs[From.v]
      MustHaveRegister == hasReg(v)
  IN IF \/ (Legal_Mem \notin Allowed /\ ~MustHaveRegister)
        \/ (RegNum # NoRegister /\ RegNum # v.regNum)
     THEN Then(copyToReg(c, From, RegNum),
               LAMBDA c1 : IF RegNum = NoRegister
                           THEN [c1 EXCEPT !.vs[c1.ret.v].pref = From.v,
                                           !.vs[c1.ret.v].overlap = AllowOverlap]
                           ELSE c1)
     ELSE Return(c, From)

\* legalize() of a Variable.
legalizeVariable(c, From, Allowed, AllowOverlap, RegNum) ==
  LET v == c.vs[From.v]
      MustHaveRegister == hasReg(v) \/ v.weight = "Inf"
  IN IF \/ (Legal_Mem \notin Allowed /\ ~MustHaveRegister)
        \/ (RegNum # NoRegister /\ RegNum # v.regNum)
     THEN Then(copyToReg(c, From, RegNum),
               LAMBDA c1 : IF RegNum = NoRegister
                           THEN [c1 EXCEPT !.vs[c1.ret.v].pref = From.v,
                                           !.vs[c1.ret.v].overlap = AllowOverlap]
                           ELSE c1)
     ELSE Return(c, From)

\* legalize() of a Constant.
legalizeConstant(c, From, Allowed, RegNum) ==
  IF From.k = "Undef" /\ isVectorType(From.ty)
  THEN makeVectorOfZeros(c, From.ty, NoRegister)
  ELSE LET Zeroed == IF From.k # "Undef" THEN From
                     ELSE IF From.ty \in {"f32", "f64"} THEN FloatOp(From.ty)
                     ELSE IF From.ty = "i64" THEN Const64(0, 0)
                     ELSE ConstOp(From.ty, 0)
           NeedsReg == \/ Legal_Imm \notin Allowed
                       \/ (Legal_Reloc \notin Allowed /\ Zeroed.k = "Reloc")
                       \/ (Legal_Mem \notin Allowed /\ Zeroed.ty \in {"f32", "f64"})
       IN IF NeedsReg THEN copyToReg(c, Zeroed, RegNum) ELSE Return(c, Zeroed)

\* legalizeToVar(Base, true) of a component of a memory operand (0: none).
legalizeComponent(c, component) ==
  IF component = 0 THEN Return(c, NoOperand)
  ELSE legalizeVariable(c, VarOp(component), {Legal_Reg}, TRUE, NoRegister)

\* legalize() of an OperandX8632Mem.
legalizeMem(c, From, Allowed, RegNum) ==
  Then(legalizeComponent(c, From.base), LAMBDA c1 :
  Then(legalizeComponent(c1, From.index), LAMBDA c2 :
    LET RegBase == IF From.base = 0 THEN 0 ELSE c1.ret.v
        RegIndex == IF From.index = 0 THEN 0 ELSE c2.ret.v
        Mem == [From EXCEPT !.base = RegBase, !.index = RegIndex]
    IN IF Legal_Mem \notin Allowed THEN copyToReg(c2, Mem, RegNum)
       ELSE Return(c2, Mem)))

\* legalize(From, Allowed, AllowOverlap, RegNum); the asserts say that a
\* register is allowed, and nothing else when a register is asked for.
legalize(c, From, Allowed, AllowOverlap, RegNum) ==
  LET c0 == [c EXCEPT !.assertFailed =
                        \/ @
                        \/ Legal_Reg \notin Allowed
                        \/ (RegNum # NoRegister /\ Allowed # {Legal_Reg})]
  IN CASE From.k = "Mem" -> legalizeMem(c0, From, Allowed, RegNum)
       [] From.k \in ConstantKinds -> legalizeConstant(c0, From, Allowed, RegNum)
       [] From.k = "Var" -> legalizeVariable(c0, From, Allowed, AllowOverlap, RegNum)

legalizeToVar(c, From, AllowOverlap, RegNum) ==
  legalize(c, From, {Legal_Reg}, AllowOverlap, RegNum)

\* A split64 that makes a fresh pair of halves on every call.
split64_AlwaysSplits(c, i) ==
  IF c.vs[i].ty \notin {"i64", "f64"} THEN c
  ELSE [c EXCEPT !.vs = [@ EXCEPT ![i].lo = Len(c.vs) + 1, ![i].hi = Len(c.vs) + 2]
                        \o <<[Var("i32", c.node) EXCEPT !.isArg = c.vs[i].isArg],
                             [Var("i32", c.node) EXCEPT !.isArg = c.vs[i].isArg]>>]

\* split64(Var) on the Variable of index i; the asserts say that the halves
\* are either both there or both missing.
split64(c, i) ==
  LET v == c.vs[i] IN
  IF v.ty \notin {"i64", "f64"} THEN c
  ELSE IF v.lo # 0 THEN [c EXCEPT !.assertFailed = @ \/ v.hi = 0]
  ELSE [c EXCEPT !.vs = [@ EXCEPT ![i].lo = Len(c.vs) + 1, ![i].hi = Len(c.vs) + 2]
                        \o <<[Var("i32", c.node) EXCEPT !.isArg = v.isArg],
                             [Var("i32", c.node) EXCEPT !.isArg = v.isArg]>>,
                 !.assertFailed = @ \/ v.hi # 0]

\* loOperand(Operand); the assert says that the type is i64.
loOperand(c, Operand) ==
  IF OperandType(c.vs, Operand) # "i64"
  THEN [c EXCEPT !.ret = Operand, !.assertFailed = TRUE]
  ELSE CASE Operand.k = "Var" ->
              Then(split64(c, Operand.v), LAMBDA c1 : Return(c1, VarOp(c1.vs[Operand.v].lo)))
         [] Operand.k = "Const" -> Return(c, ConstOp("i32", Operand.val[1]))
         [] Operand.k = "Mem" -> Return(c, [Operand EXCEPT !.ty = "i32"])

\* hiOperand(Operand)
hiOperand(c, Operand) ==
  IF OperandType(c.vs, Operand) # "i64"
  THEN [c EXCEPT !.ret = Operand, !.assertFailed = TRUE]
  ELSE CASE Operand.k = "Var" ->
              Then(split64(c, Operand.v), LAMBDA c1 : Return(c1, VarOp(c1.vs[Operand.v].hi)))
         [] Operand.k = "Const" -> Return(c, ConstOp("i32", Operand.val[2]))
         [] Operand.k = "Mem" ->
              Return(c, [Operand EXCEPT !.ty = "i32", !.offset = 4 + @])

\* FormMemoryOperand(Operand, Ty)
FormMemoryOperand(c, Operand, Ty) ==
  LET Mem == CASE Operand.k = "Mem" -> Operand
               [] Operand.k = "Var" -> MemOp(Ty, Operand.v, 0)
               [] Operand.k = "Const" -> MemOp(Ty, 0, Operand.val)
  IN legalize(c, Mem, Legal_All, FALSE, NoRegister)

\* lowerStore of "store Value, Addr"
lowerStore(c, Value, Addr) ==
  Then(FormMemoryOperand(c, Addr, OperandType(c.vs, Value)), LAMBDA c1 :
    LET NewAddr == c1.ret IN
    IF NewAddr.ty = "i64"
    THEN Then(legalize(c1, Value, Legal_All, FALSE, NoRegister), LAMBDA c2 :
         Then(hiOperand(c2, c2.ret), LAMBDA c3 :
         Then(legalize(c3, c3.ret, {Legal_Reg, Legal_Imm}, TRUE, NoRegister), LAMBDA c4 :
         Then(loOperand(c4, c2.ret), LAMBDA c5 :
         Then(legalize(c5, c5.ret, {Legal_Reg, Legal_Imm}, TRUE, NoRegister), LAMBDA c6 :
         Then(hiOperand(c6, NewAddr), LAMBDA c7 :
         Then(loOperand(Emit(c7, Inst("store", NoOperand, <<c4.ret, c7.ret>>)), NewAddr),
              LAMBDA c8 : Emit(c8, Inst("store", NoOperand, <<c6.ret, c8.ret>>)))))))))
    ELSE IF isVectorType(NewAddr.ty)
    THEN Then(legalizeToVar(c1, Value, FALSE, NoRegister), LAMBDA c2 :
              Emit(c2, Inst("storep", NoOperand, <<c2.ret, NewAddr>>)))
    ELSE Then(legalize(c1, Value, {Legal_Reg, Legal_Imm}, TRUE, NoRegister), LAMBDA c2 :
              Emit(c2, Inst("store", NoOperand, <<c2.ret, NewAddr>>))))

(***************************************************************************)
(* lowerCall.                                                              *)
(***************************************************************************)
\* InstCall: srcs is the call target followed by the arguments.
InstCall(dest, target, args, sideEffects) ==
  [op |-> "Call", dest |-> dest, srcs |-> <<target>> \o args, deleted |-> FALSE,
   hasSideEffects |-> sideEffects]

\* A classification that does not align the location of a vector.
ClassifyArg_Unaligned(st, Arg) ==
  LET Ty == OperandType(st.c.vs, Arg) IN
  IF isVectorType(Ty) /\ Len(st.XmmArgs) < X86_MAX_XMM_ARGS
  THEN [st EXCEPT !.XmmArgs = Append(@, Arg)]
  ELSE LET Size == st.ParameterAreaSizeBytes
           c1 == PhysicalRegister(st.c, Reg_esp)
       IN [c |-> c1,
           XmmArgs |-> st.XmmArgs,
           StackArgs |-> Append(st.StackArgs, Arg),
           StackArgLocations |-> Append(st.StackArgLocations, MemOp(Ty, c1.ret.v, Size)),
           ParameterAreaSizeBytes |-> Size + typeWidthInBytesOnStack(Ty)]

\* One step of the loop over the arguments (lines 1746-1764) on
\* st = [c, XmmArgs, StackArgs, StackArgLocations, ParameterAreaSizeBytes]:
\* a vector goes to the next free xmm register, any other argument to the
\* next location of the parameter area.
ClassifyArg(st, Arg) ==
  LET Ty == OperandType(st.c.vs, Arg) IN
  IF isVectorType(Ty) /\ Len(st.XmmArgs) < X86_MAX_XMM_ARGS
  THEN [st EXCEPT !.XmmArgs = Append(@, Arg)]
  ELSE LET Size == IF isVectorType(Ty)
                   THEN applyStackAlignment(st.ParameterAreaSizeBytes)
                   ELSE st.ParameterAreaSizeBytes
           c1 == PhysicalRegister(st.c, Reg_esp)
       IN [c |-> c1,
           XmmArgs |-> st.XmmArgs,
           StackArgs |-> Append(st.StackArgs, Arg),
           StackArgLocations |-> Append(st.StackArgLocations, MemOp(Ty, c1.ret.v, Size)),
           ParameterAreaSizeBytes |-> Size + typeWidthInBytesOnStack(Ty)]

\* A call sequence without the FakeKill.
CallAndKill_NoKill(c, ReturnReg, ReturnRegHi, Target, ParameterAreaSizeBytes) ==
  Then(legalize(c, Target, Legal_All, FALSE, NoRegister), LAMBDA c1 :
  Then(Emit(c1, Inst("call", ReturnReg, <<c1.ret>>)), LAMBDA c2 :
  Then(IF ReturnRegHi # NoOperand
       THEN Emit(c2, Inst("FakeDef", ReturnRegHi, << >>)) ELSE c2, LAMBDA c3 :
    IF ParameterAreaSizeBytes # 0
    THEN Then(PhysicalRegister(c3, Reg_esp), LAMBDA ce :
              Emit(ce, Binop("add", ce.ret,
                             ConstOp("i32", ParameterAreaSizeBytes))))
    ELSE c3)))

\* The call, the FakeDef of the high half of the result, the add that gives
\* the parameter area back, and the FakeKill of the scratch registers
\* (lines 1848-1867).
CallAndKill(c, ReturnReg, ReturnRegHi, Target, ParameterAreaSizeBytes) ==
  Then(legalize(c, Target, Legal_All, FALSE, NoRegister), LAMBDA c1 :
  Then(Emit(c1, Inst("call", ReturnReg, <<c1.ret>>)), LAMBDA c2 :
  Then(IF ReturnRegHi # NoOperand
       THEN Emit(c2, Inst("FakeDef", ReturnRegHi, << >>)) ELSE c2, LAMBDA c3 :
  Then(IF ParameterAreaSizeBytes # 0
       THEN Then(PhysicalRegister(c3, Reg_esp), LAMBDA ce :
                 Emit(ce, Binop("add", ce.ret,
                                ConstOp("i32", ParameterAreaSizeBytes))))
       ELSE c3, LAMBDA c4 :
  Then(FoldSeq(LAMBDA fs, r : getPhysicalRegister(fs, r),
               FuncState(c4.vs, c4.pr), RegSeq(ScratchRegs), 1), LAMBDA fs :
    Emit([c4 EXCEPT !.vs = fs.vs, !.pr = fs.pr],
         Inst("FakeKill", NoOperand,
              [i \in 1..Cardinality(ScratchRegs) |->
                 VarOp(fs.pr[RegSeq(ScratchRegs)[i]])])))))))

\* The registers of the result: ReturnReg and ReturnRegHi (lines 1811-1845).
ReturnRegs(c, Dest) ==
  LET Ty == IF Dest = NoOperand THEN "void" ELSE OperandType(c.vs, Dest) IN
  CASE Ty \in {"i1", "i8", "i16", "i32"} ->
         Then(makeReg(c, Ty, Reg_eax), LAMBDA c1 :
              Return(c1, [lo |-> c1.ret, hi |-> NoOperand]))
    [] Ty = "i64" ->
         Then(makeReg(c, "i32", Reg_eax), LAMBDA c1 :
         Then(makeReg(c1, "i32", Reg_edx), LAMBDA c2 :
              Return(c2, [lo |-> c1.ret, hi |-> c2.ret])))
    [] isVectorType(Ty) ->
         Then(makeReg(c, Ty, Reg_xmm0), LAMBDA c1 :
              Return(c1, [lo |-> c1.ret, hi |-> NoOperand]))
    [] OTHER -> Return(c, [lo |-> NoOperand, hi |-> NoOperand])

\* The copy of the result to Dest (lines 1875-1909).
AssignResult(c, Dest, ReturnReg, ReturnRegHi) ==
  IF Dest = NoOperand THEN c
  ELSE IF ReturnReg # NoOperand
  THEN IF ReturnRegHi # NoOperand
       THEN Then(split64(c, Dest.v), LAMBDA c1 :
              LET DestLo == c1.vs[Dest.v].lo
                  DestHi == c1.vs[Dest.v].hi
              IN Emit(Emit([c1 EXCEPT !.vs[DestLo].pref = ReturnReg.v,
                                      !.vs[DestLo].overlap = FALSE,
                                      !.vs[DestHi].pref = ReturnRegHi.v,
                                      !.vs[DestHi].overlap = FALSE],
                           Inst("mov", VarOp(DestLo), <<ReturnReg>>)),
                      Inst("mov", VarOp(DestHi), <<ReturnRegHi>>)))
       ELSE Emit([c EXCEPT !.vs[Dest.v].pref = ReturnReg.v,
                           !.vs[Dest.v].overlap = FALSE],
                 Inst(IF isVectorType(OperandType(c.vs, Dest)) THEN "movp" ELSE "mov",
                      Dest, <<ReturnReg>>))
  ELSE IF OperandType(c.vs, Dest) \in {"f32", "f64"}
  THEN Emit(Emit(c, Inst("fstp", Dest, << >>)), Inst("FakeUse", NoOperand, <<Dest>>))
  ELSE c

\* lowerCall(Instr); ParameterAreaSizeBytes is kept in the context returned.
lowerCall(c, Instr) ==
  LET Dest == Instr.dest
      Target == Instr.srcs[1]
      CallArgs == Tail(Instr.srcs)
  IN
  Then(FoldSeq(ClassifyArg,
               [c |-> c, XmmArgs |-> << >>, StackArgs |-> << >>,
                StackArgLocations |-> << >>, ParameterAreaSizeBytes |-> 0],
               CallArgs, 1), LAMBDA cl :
    LET ParameterAreaSizeBytes == applyStackAlignment(cl.ParameterAreaSizeBytes) IN
  Then(IF ParameterAreaSizeBytes # 0
       THEN Emit(cl.c, Inst("adjuststack", NoOperand,
                            <<ConstOp("i32", ParameterAreaSizeBytes)>>))
       ELSE cl.c, LAMBDA c1 :
  Then(FoldSeq(LAMBDA cc, i : lowerStore(cc, cl.StackArgs[i], cl.StackArgLocations[i]),
               c1, Iota(Len(cl.StackArgs)), 1), LAMBDA c2 :
  Then(FoldSeq(LAMBDA cc, i :
                 Then(legalizeToVar(cc, cl.XmmArgs[i], FALSE, Reg_xmm0 + (i - 1)),
                      LAMBDA cr : Emit(cr, Inst("FakeUse", NoOperand, <<cr.ret>>))),
               c2, Iota(Len(cl.XmmArgs)), 1), LAMBDA c3 :
  Then(ReturnRegs(c3, Dest), LAMBDA c4 :
    LET ReturnReg == c4.ret.lo
        ReturnRegHi == c4.ret.hi
    IN
  Then(CallAndKill(c4, ReturnReg, ReturnRegHi, Target, ParameterAreaSizeBytes), LAMBDA c5 :
  Then(IF Instr.hasSideEffects /\ ReturnReg # NoOperand
       THEN Emit(c5, Inst("FakeUse", NoOperand, <<ReturnReg>>)) ELSE c5, LAMBDA c6 :
    AssignResult(c6, Dest, ReturnReg, ReturnRegHi))))))))

(***************************************************************************)
(* lowerAssign, lowerBr, lowerArithmetic, lowerLoad, lowerCast, lowerPhi    *)
(* and the atomic intrinsics, with the i64 sequences of the atomics, the   *)
(* phi copies of the cmpxchg peephole and the load/arithmetic fusion.      *)
(***************************************************************************)
\* _mov(Dest, Src0): a NULL Dest becomes a new register of the type of Src0.
\* The returned value is Dest.
_mov(c, Dest, Src0) ==
  IF Dest = NoOperand
  THEN Then(makeReg(c, OperandType(c.vs, Src0), NoRegister), LAMBDA c1 :
            Return(Emit(c1, Inst("mov", c1.ret, <<Src0>>)), c1.ret))
  ELSE Return(Emit(c, Inst("mov", Dest, <<Src0>>)), Dest)

\* _br(Condition, TargetTrue, TargetFalse), _br(Target) and
\* _br(Condition, Label)
InstX8632Br(cond, targets) ==
  [op |-> "br", dest |-> NoOperand, srcs |-> << >>, deleted |-> FALSE,
   cond |-> cond, targets |-> targets]

\* Func->setError(Message)
setError(c) == [c EXCEPT !.error = TRUE]

lowerAssign(c, Dest, Src0) ==
  IF OperandType(c.vs, Dest) = "i64"
  THEN Then(legalize(c, Src0, Legal_All, FALSE, NoRegister), LAMBDA c1 :
       Then(loOperand(c1, c1.ret), LAMBDA c2 :
       Then(hiOperand(c2, c1.ret), LAMBDA c3 :
       Then(loOperand(c3, Dest), LAMBDA c4 :
       Then(hiOperand(c4, Dest), LAMBDA c5 :
       Then(_mov(c5, NoOperand, c2.ret), LAMBDA c6 :
       Then(_mov(c6, c4.ret, c6.ret), LAMBDA c7 :
       Then(_mov(c7, NoOperand, c3.ret), LAMBDA c8 :
            _mov(c8, c5.ret, c8.ret)))))))))
  ELSE Then(legalize(c, Src0, {Legal_Reg, Legal_Imm}, TRUE, NoRegister), LAMBDA c1 :
            Emit(c1, Inst(IF isVectorType(OperandType(c.vs, Dest)) THEN "movp" ELSE "mov",
                          Dest, <<c1.ret>>)))

\* InstBr: srcs is the condition, or empty for an unconditional branch;
\* lastUses are the Variables whose live range ends at the instruction.
InstBr(cond, targets, lastUses) ==
  [op |-> "Br", dest |-> NoOperand, srcs |-> cond, deleted |-> FALSE,
   targets |-> targets, lastUses |-> lastUses]

isUnconditional(Br) == Br.srcs = << >>

isLastUse(Instr, Operand) == Operand.k = "Var" /\ Operand.v \in Instr.lastUses

lowerBr(c, Instr) ==
  IF isUnconditional(Instr)
  THEN Emit(c, InstX8632Br("none", Instr.targets))
  ELSE Then(legalize(c, Instr.srcs[1], {Legal_Reg, Legal_Mem}, FALSE, NoRegister), LAMBDA c1 :
            Emit(Emit(c1, Inst("cmp", NoOperand, <<c1.ret, ConstOp("i32", 0)>>)),
                 InstX8632Br("ne", Instr.targets)))

\* lowerArithmetic: the scalar integer operations other than the divisions
\* and remainders.
InstArithmetic(op, dest, src0, src1) ==
  [op |-> "Arithmetic", dest |-> dest, srcs |-> <<src0, src1>>,
   deleted |-> FALSE, arith |-> op]

\* The constant that the count is tested against: bit 5, or bit 4 in the
\* second form.
BitTest_Bit4 == ConstOp("i32", 16)

BitTest == ConstOp("i32", 32)

\* The count of the sar that fills the high half of an ashr with the sign:
\* 31, or 1 in the second form.
SignExtend_ByOne == ConstOp("i32", 1)

SignExtend == ConstOp("i32", 31)

\* _mov(Dest, Src0, RegNum) with Dest == NULL: a new Variable in RegNum.
movToReg(c, Src0, RegNum) ==
  Then(makeReg(c, OperandType(c.vs, Src0), RegNum), LAMBDA cm :
       Return(Emit(cm, Inst("mov", cm.ret, <<Src0>>)), cm.ret))

\* The cases Shl, Lshr and Ashr of lowerArithmetic for i64.
lowerShift64(c, op, DestLo, DestHi, Src0Lo, Src0Hi, Src1Lo) ==
  Then(movToReg(c, Src1Lo, Reg_ecx), LAMBDA s1 :
  Then(movToReg(s1, Src0Lo, NoRegister), LAMBDA s2 :
  Then(movToReg(s2, Src0Hi, NoRegister), LAMBDA s3 :
    LET T_1 == s1.ret
        T_2 == s2.ret
        T_3 == s3.ret
        Zero == ConstOp("i32", 0)
        Body ==
          CASE op = "Shl" ->
                 << Inst("shld", T_3, <<T_3, T_2, T_1>>),
                    Binop("shl", T_2, T_1),
                    Inst("test", NoOperand, <<T_1, BitTest>>),
                    InstX8632Br("e", <<"Label">>),
                    Inst("FakeUse", NoOperand, <<T_3>>),
                    Inst("mov", T_3, <<T_2>>),
                    Inst("mov", T_2, <<Zero>>) >>
            [] op = "Lshr" ->
                 << Inst("shrd", T_2, <<T_2, T_3, T_1>>),
                    Binop("shr", T_3, T_1),
                    Inst("test", NoOperand, <<T_1, BitTest>>),
                    InstX8632Br("e", <<"Label">>),
                    Inst("FakeUse", NoOperand, <<T_2>>),
                    Inst("mov", T_2, <<T_3>>),
                    Inst("mov", T_3, <<Zero>>) >>
            [] op = "Ashr" ->
                 << Inst("shrd", T_2, <<T_2, T_3, T_1>>),
                    Binop("sar", T_3, T_1),
                    Inst("test", NoOperand, <<T_1, BitTest>>),
                    InstX8632Br("e", <<"Label">>),
                    Inst("FakeUse", NoOperand, <<T_2>>),
                    Inst("mov", T_2, <<T_3>>),
                    Binop("sar", T_3, SignExtend) >>
    IN [s3 EXCEPT !.insts = @ \o Body
                    \o << Inst("label", NoOperand, << >>),
                          Inst("mov", DestLo, <<T_2>>),
                          Inst("mov", DestHi, <<T_3>>) >>])))

\* The i64 cases Add, And, Or, Xor and Sub of lowerArithmetic.
lowerBinop64(c, OpLo, OpHi, DestLo, DestHi, Src0Lo, Src0Hi, Src1Lo, Src1Hi) ==
  Then(_mov(c, NoOperand, Src0Lo), LAMBDA b1 :
  Then(_mov(Emit(Emit(b1, Binop(OpLo, b1.ret, Src1Lo)),
                 Inst("mov", DestLo, <<b1.ret>>)), NoOperand, Src0Hi), LAMBDA b2 :
       Emit(Emit(b2, Binop(OpHi, b2.ret, Src1Hi)),
            Inst("mov", DestHi, <<b2.ret>>))))

\* A sequence for the i64 Mul that leaves t2 out of the high half.
lowerMul64_WithoutT2(c, DestLo, DestHi, Src0Lo, Src0Hi, Src1Lo, Src1Hi) ==
  Then(makeReg(c, "i32", Reg_eax), LAMBDA m1 :
  Then(makeReg(m1, "i32", Reg_edx), LAMBDA m2 :
  Then(legalize(m2, Src1Lo, {Legal_Reg, Legal_Mem}, FALSE, NoRegister), LAMBDA m3 :
  Then(_mov(m3, NoOperand, Src0Hi), LAMBDA m4 :
  Then(movToReg(Emit(m4, Binop("imul", m4.ret, m3.ret)), Src0Lo, Reg_eax),
       LAMBDA m6 :
    LET T_4Lo == m1.ret
        T_4Hi == m2.ret
        T_1 == m4.ret
        T_3 == m6.ret
    IN [m6 EXCEPT !.insts = @ \o
          << Inst("mul", T_4Lo, <<T_3, m3.ret>>),
             Inst("FakeDef", T_4Hi, <<T_4Lo>>),
             Inst("mov", DestLo, <<T_4Lo>>),
             Binop("add", T_4Hi, T_1),
             Inst("mov", DestHi, <<T_4Hi>>) >>])))))

\* The i64 case Mul of lowerArithmetic: T_4Lo is eax and T_4Hi is edx, the
\* two halves of the result of mul.
lowerMul64(c, DestLo, DestHi, Src0Lo, Src0Hi, Src1Lo, Src1Hi) ==
  Then(makeReg(c, "i32", Reg_eax), LAMBDA m1 :
  Then(makeReg(m1, "i32", Reg_edx), LAMBDA m2 :
  Then(legalize(m2, Src1Lo, {Legal_Reg, Legal_Mem}, FALSE, NoRegister), LAMBDA m3 :
  Then(_mov(m3, NoOperand, Src0Hi), LAMBDA m4 :
  Then(_mov(Emit(m4, Binop("imul", m4.ret, m3.ret)), NoOperand, Src1Hi), LAMBDA m5 :
  Then(movToReg(Emit(m5, Binop("imul", m5.ret, Src0Lo)), Src0Lo, Reg_eax),
       LAMBDA m6 :
    LET T_4Lo == m1.ret
        T_4Hi == m2.ret
        T_1 == m4.ret
        T_2 == m5.ret
        T_3 == m6.ret
    IN [m6 EXCEPT !.insts = @ \o
          << Inst("mul", T_4Lo, <<T_3, m3.ret>>),
             Inst("FakeDef", T_4Hi, <<T_4Lo>>),
             Inst("mov", DestLo, <<T_4Lo>>),
             Binop("add", T_4Hi, T_1),
             Binop("add", T_4Hi, T_2),
             Inst("mov", DestHi, <<T_4Hi>>) >>]))))))

\* The instruction of an operation on a scalar of at most 32 bits.
ScalarOp(op) ==
  CASE op = "Add" -> "add" [] op = "And" -> "and" [] op = "Or" -> "or"
    [] op = "Xor" -> "xor" [] op = "Sub" -> "sub" [] op = "Mul" -> "imul"
    [] op = "Shl" -> "shl" [] op = "Lshr" -> "shr" [] op = "Ashr" -> "sar"

\* The cases of lowerArithmetic for a scalar Dest that is not an i64: the
\* count of a shift that is not a constant goes to ecx, and the first
\* operand of an i8 Mul to eax.
lowerScalarArithmetic(c, op, Dest, Src0, Src1) ==
  Then(IF op = "Mul" /\ OperandType(c.vs, Dest) = "i8"
       THEN movToReg(c, Src0, Reg_eax) ELSE _mov(c, NoOperand, Src0), LAMBDA t1 :
  Then(IF op \in {"Shl", "Lshr", "Ashr"} /\ Src1.k \notin ConstantKinds
       THEN legalizeToVar(t1, Src1, FALSE, Reg_ecx) ELSE Return(t1, Src1),
       LAMBDA t2 :
       Emit(Emit(t2, Binop(ScalarOp(op), t1.ret, t2.ret)),
            Inst("mov", Dest, <<t1.ret>>))))

lowerArithmetic(c, Instr) ==
  Then(legalize(c, Instr.srcs[1], Legal_All, FALSE, NoRegister), LAMBDA a1 :
  Then(legalize(a1, Instr.srcs[2], Legal_All, FALSE, NoRegister), LAMBDA a2 :
  IF OperandType(a2.vs, Instr.dest) # "i64"
  THEN lowerScalarArithmetic(a2, Instr.arith, Instr.dest, a1.ret, a2.ret)
  ELSE
  Then(loOperand(a2, Instr.dest), LAMBDA a3 :
  Then(hiOperand(a3, Instr.dest), LAMBDA a4 :
  Then(loOperand(a4, a1.ret), LAMBDA a5 :
  Then(hiOperand(a5, a1.ret), LAMBDA a6 :
  Then(loOperand(a6, a2.ret), LAMBDA a7 :
  Then(hiOperand(a7, a2.ret), LAMBDA a8 :
    CASE Instr.arith = "Add" ->
           lowerBinop64(a8, "add", "adc", a3.ret, a4.ret, a5.ret, a6.ret,
                        a7.ret, a8.ret)
      [] Instr.arith = "Sub" ->
           lowerBinop64(a8, "sub", "sbb", a3.ret, a4.ret, a5.ret, a6.ret,
                        a7.ret, a8.ret)
      [] Instr.arith \in {"And", "Or", "Xor"} ->
           lowerBinop64(a8, ScalarOp(Instr.arith), ScalarOp(Instr.arith),
                        a3.ret, a4.ret, a5.ret, a6.ret, a7.ret, a8.ret)
      [] Instr.arith = "Mul" ->
           lowerMul64(a8, a3.ret, a4.ret, a5.ret, a6.ret, a7.ret, a8.ret)
      [] Instr.arith \in {"Shl", "Lshr", "Ashr"} ->
           lowerShift64(a8, Instr.arith, a3.ret, a4.ret, a5.ret, a6.ret,
                        a7.ret)))))))))

\* InstArithmetic::isCommutative
isCommutative(Arith) == Arith.arith \in {"Add", "Mul", "And", "Or", "Xor"}

\* A test of the fusion that takes the load's Dest for the first operand of
\* any operation.
FusesFirst_AnyOperation(Arith, DestLoad) ==
  /\ Arith.srcs[1] = DestLoad
  /\ isLastUse(Arith, Arith.srcs[1])
  /\ DestLoad # Arith.srcs[2]

\* The load's Dest is the first operand of a commutative Arith.
FusesFirst(Arith, DestLoad) ==
  /\ Arith.srcs[1] = DestLoad
  /\ isCommutative(Arith)
  /\ isLastUse(Arith, Arith.srcs[1])
  /\ DestLoad # Arith.srcs[2]

\* lowerLoad of "Dest = load Addr": the load is fused with the arithmetic
\* instruction that follows it, or lowered like an assign.
lowerLoad(c, Dest, Addr, following) ==
  Then(FormMemoryOperand(c, Addr, OperandType(c.vs, Dest)), LAMBDA c1 :
    LET Src0 == c1.ret
        IsArith == following # << >> /\ following[1].op = "Arithmetic"
        Arith == following[1]
    IN IF IsArith /\ Arith.srcs[2] = Dest /\ isLastUse(Arith, Arith.srcs[2])
          /\ Dest # Arith.srcs[1]
       THEN [lowerArithmetic(c1, InstArithmetic(Arith.arith, Arith.dest,
                                                  Arith.srcs[1], Src0))
               EXCEPT !.consumed = 1]
       ELSE IF IsArith /\ FusesFirst(Arith, Dest)
       THEN [lowerArithmetic(c1, InstArithmetic(Arith.arith, Arith.dest,
                                                  Arith.srcs[2], Src0))
               EXCEPT !.consumed = 1]
       ELSE lowerAssign(c1, Dest, Src0))

InstCast(kind, dest, src) ==
  [op |-> "Cast", dest |-> dest, srcs |-> <<src>>, deleted |-> FALSE, castKind |-> kind]

\* InstCast::OpKind
CastKinds == {"Sext", "Zext", "Trunc", "Fptrunc", "Fpext", "Fptosi", "Fptoui",
              "Sitofp", "Uitofp", "Bitcast"}

\* lowerCast: the scalar Trunc, Fptrunc and Fpext, and the default of the
\* switch on the cast kind.
lowerCast(c, Instr) ==
  LET Dest == Instr.dest
      DestTy == OperandType(c.vs, Dest)
  IN CASE Instr.castKind \notin CastKinds -> setError(c)
       [] Instr.castKind = "Trunc" /\ ~isVectorType(DestTy) ->
            Then(IF OperandType(c.vs, Instr.srcs[1]) = "i64"
                 THEN loOperand(c, Instr.srcs[1])
                 ELSE Return(c, Instr.srcs[1]), LAMBDA c1 :
            Then(legalize(c1, c1.ret, {Legal_Reg, Legal_Mem}, FALSE, NoRegister), LAMBDA c2 :
            Then(_mov(c2, NoOperand, c2.ret), LAMBDA c3 :
            Then(IF DestTy = "i1"
                 THEN Emit(c3, Binop("and", c3.ret, ConstOp("i1", 1)))
                 ELSE c3, LAMBDA c4 :
                 _mov(c4, Dest, c3.ret)))))
       [] Instr.castKind \in {"Fptrunc", "Fpext"} ->
            Then(legalize(c, Instr.srcs[1], {Legal_Reg, Legal_Mem}, FALSE, NoRegister), LAMBDA c1 :
            Then(makeReg(c1, DestTy, NoRegister), LAMBDA c2 :
                 _mov(Emit(c2, Inst("cvt", c2.ret, <<c1.ret>>)), Dest, c2.ret)))

lowerPhi(c) == setError(c)

\* Intrinsics::VerifyMemoryOrder: the one ordering that the atomics accept.
MemoryOrderSequentiallyConsistent == 6

VerifyMemoryOrder(Order) == Order = MemoryOrderSequentiallyConsistent

\* Intrinsics::AtomicRMWOperation, from AtomicAdd = 1 on.
AtomicRMWOperations ==
  <<"AtomicAdd", "AtomicSub", "AtomicOr", "AtomicAnd", "AtomicXor", "AtomicExchange">>

\* InstIntrinsicCall: srcs are the arguments.
InstIntrinsicCall(ID, dest, args) ==
  [op |-> "IntrinsicCall", dest |-> dest, srcs |-> args, deleted |-> FALSE, ID |-> ID]

\* The i64 case of lowerAtomicCmpxchg: cmpxchg8b on edx:eax and ecx:ebx.
lowerAtomicCmpxchg64(c, DestPrev, Ptr, Expected, Desired) ==
  Then(makeReg(c, "i32", Reg_edx), LAMBDA x1 :
  Then(makeReg(x1, "i32", Reg_eax), LAMBDA x2 :
  Then(makeReg(x2, "i32", Reg_ecx), LAMBDA x3 :
  Then(makeReg(x3, "i32", Reg_ebx), LAMBDA x4 :
    LET T_edx == x1.ret
        T_eax == x2.ret
        T_ecx == x3.ret
        T_ebx == x4.ret
    IN
    Then(loOperand(x4, Expected), LAMBDA x5 :
    Then(hiOperand(Emit(x5, Inst("mov", T_eax, <<x5.ret>>)), Expected), LAMBDA x6 :
    Then(loOperand(Emit(x6, Inst("mov", T_edx, <<x6.ret>>)), Desired), LAMBDA x7 :
    Then(hiOperand(Emit(x7, Inst("mov", T_ebx, <<x7.ret>>)), Desired), LAMBDA x8 :
    Then(FormMemoryOperand(Emit(x8, Inst("mov", T_ecx, <<x8.ret>>)), Ptr, "i64"),
         LAMBDA x9 :
    Then(loOperand(Emit(x9, Inst("cmpxchg8b", NoOperand,
                                 <<x9.ret, T_edx, T_eax, T_ecx, T_ebx>>)),
                   DestPrev), LAMBDA x10 :
    Then(hiOperand(x10, DestPrev), LAMBDA x11 :
         Emit(Emit(x11, Inst("mov", x10.ret, <<T_eax>>)),
              Inst("mov", x11.ret, <<T_edx>>)))))))))))))

lowerAtomicCmpxchg(c, DestPrev, Ptr, Expected, Desired) ==
  LET Ty == OperandType(c.vs, Expected) IN
  IF Ty = "i64" THEN lowerAtomicCmpxchg64(c, DestPrev, Ptr, Expected, Desired)
  ELSE
  Then(makeReg(c, Ty, Reg_eax), LAMBDA c1 :
    LET T_eax == c1.ret IN
    Then(FormMemoryOperand(Emit(c1, Inst("mov", T_eax, <<Expected>>)), Ptr, Ty), LAMBDA c2 :
    Then(legalizeToVar(c2, Desired, FALSE, NoRegister), LAMBDA c3 :
         Emit(Emit(c3, Inst("cmpxchg", T_eax, <<c2.ret, T_eax, c3.ret>>)),
              Inst("mov", DestPrev, <<T_eax>>)))))

\* The assigns that stand first in following (PhiAssigns).
RECURSIVE LeadingAssigns(_)
LeadingAssigns(following) ==
  IF following = << >> \/ following[1].op # "Assign" THEN << >>
  ELSE <<following[1]>> \o LeadingAssigns(Tail(following))

\* A scan of the assigns that lets an assign write the cmpxchg's Dest.
WritesDest_Never(PhiAssigns, Dest) == FALSE

\* One of the assigns writes Dest.
WritesDest(PhiAssigns, Dest) ==
  \E i \in 1..Len(PhiAssigns) : PhiAssigns[i].dest = Dest

\* tryOptimizedCmpxchgCmpBr on the instructions that follow the intrinsic:
\* the returned value tells whether the compare and the branch were fused.
\* The lowered assigns stand before the branch; consumed counts the
\* assigns, the icmp and the br, which are marked deleted and stepped over.
tryOptimizedCmpxchgCmpBr(c, level, following, Dest, PtrToMem, Expected, Desired) ==
  LET PhiAssigns == LeadingAssigns(following)
      n == Len(PhiAssigns)
      fuses ==
        /\ level # "Om1"
        /\ ~WritesDest(PhiAssigns, Dest)
        /\ Len(following) >= n + 2
        /\ following[n + 1].op = "Icmp"
        /\ following[n + 1].cond = "Eq"
        /\ \/ following[n + 1].srcs = <<Dest, Expected>>
           \/ following[n + 1].srcs = <<Expected, Dest>>
        /\ following[n + 2].op = "Br"
        /\ ~isUnconditional(following[n + 2])
        /\ following[n + 2].srcs[1] = following[n + 1].dest
        /\ isLastUse(following[n + 2], following[n + 1].dest)
  IN IF ~fuses THEN Return(c, FALSE)
     ELSE Then(lowerAtomicCmpxchg(c, Dest, PtrToMem, Expected, Desired), LAMBDA c1 :
          Then(FoldSeq(LAMBDA st, PhiAssign :
                         lowerAssign(st, PhiAssign.dest, PhiAssign.srcs[1]),
                       c1, PhiAssigns, 1), LAMBDA c2 :
               [Emit(c2, InstX8632Br("e", following[n + 2].targets))
                  EXCEPT !.consumed = n + 2, !.ret = TRUE]))

\* A test that takes every operation for the exchange.
IsXchg8b_Always(Op_Lo, Op_Hi) == TRUE

\* IsXchg8b: the operation needs no Op_Lo and no Op_Hi.
IsXchg8b(Op_Lo, Op_Hi) == Op_Lo = "NULL" /\ Op_Hi = "NULL"

\* The i64 case of expandAtomicRMWAsCmpxchg; Op_Lo and Op_Hi are "NULL" for
\* the exchange, whose values are loaded before the loop.
expandAtomicRMWAsCmpxchg64(c, Op_Lo, Op_Hi, Dest, Ptr, Val) ==
  Then(makeReg(c, "i32", Reg_edx), LAMBDA r1 :
  Then(makeReg(r1, "i32", Reg_eax), LAMBDA r2 :
  Then(FormMemoryOperand(r2, Ptr, "i64"), LAMBDA r3 :
    LET T_edx == r1.ret
        T_eax == r2.ret
        Addr == r3.ret
        IsXchg == IsXchg8b(Op_Lo, Op_Hi)
        Label == Inst("label", NoOperand, << >>)
    IN
    Then(loOperand(r3, Addr), LAMBDA r4 :
    Then(hiOperand(Emit(r4, Inst("mov", T_eax, <<r4.ret>>)), Addr), LAMBDA r5 :
    Then(makeReg(Emit(r5, Inst("mov", T_edx, <<r5.ret>>)), "i32", Reg_ecx), LAMBDA r6 :
    Then(makeReg(r6, "i32", Reg_ebx), LAMBDA r7 :
      LET T_ecx == r6.ret
          T_ebx == r7.ret
      IN
      Then(IF ~IsXchg
           THEN Then(loOperand(Emit(Emit(r7, Label), Inst("mov", T_ebx, <<T_eax>>)),
                               Val), LAMBDA a1 :
                Then(hiOperand(Emit(Emit(a1, Binop(Op_Lo, T_ebx, a1.ret)),
                                    Inst("mov", T_ecx, <<T_edx>>)), Val), LAMBDA a2 :
                     Emit(a2, Binop(Op_Hi, T_ecx, a2.ret))))
           ELSE Then(loOperand(r7, Val), LAMBDA a1 :
                Then(hiOperand(Emit(a1, Inst("mov", T_ebx, <<a1.ret>>)), Val),
                     LAMBDA a2 :
                     Emit(Emit(a2, Inst("mov", T_ecx, <<a2.ret>>)), Label))),
           LAMBDA r8 :
      Then(Emit(Emit(r8, Inst("cmpxchg8b", NoOperand,
                              <<Addr, T_edx, T_eax, T_ecx, T_ebx>>)),
                InstX8632Br("ne", <<"label">>)), LAMBDA r9 :
      Then(IF ~IsXchg
           THEN (IF Val.k # "Var" THEN r9
                 ELSE Then(loOperand(r9, Val), LAMBDA f1 :
                      Then(hiOperand(f1, Val), LAMBDA f2 :
                           Emit(Emit(f2, Inst("FakeUse", NoOperand, <<f1.ret>>)),
                                Inst("FakeUse", NoOperand, <<f2.ret>>)))))
           ELSE Emit(Emit(r9, Inst("FakeUse", NoOperand, <<T_ebx>>)),
                     Inst("FakeUse", NoOperand, <<T_ecx>>)),
           LAMBDA r10 :
      Then(loOperand(Emit(r10, Inst("FakeUse", NoOperand, <<VarOp(Addr.base)>>)),
                     Dest), LAMBDA r11 :
      Then(hiOperand(r11, Dest), LAMBDA r12 :
           Emit(Emit(r12, Inst("mov", r11.ret, <<T_eax>>)),
                Inst("mov", r12.ret, <<T_edx>>))))))))))))))

expandAtomicRMWAsCmpxchg(c, Op_Lo, Op_Hi, Dest, Ptr, Value) ==
  Then(legalize(c, Value, Legal_All, FALSE, NoRegister), LAMBDA c1 :
    LET Val == c1.ret
        Ty == OperandType(c1.vs, Val)
    IN IF Ty = "i64" THEN expandAtomicRMWAsCmpxchg64(c1, Op_Lo, Op_Hi, Dest, Ptr, Val)
       ELSE
       Then(FormMemoryOperand(c1, Ptr, Ty), LAMBDA c2 :
       LET Addr == c2.ret IN
       Then(makeReg(c2, Ty, Reg_eax), LAMBDA c3 :
       LET T_eax == c3.ret IN
       Then(makeReg(Emit(Emit(c3, Inst("mov", T_eax, <<Addr>>)),
                         Inst("label", NoOperand, << >>)), Ty, NoRegister), LAMBDA c4 :
       LET T == c4.ret IN
       Then(Emit(Emit(Emit(Emit(c4, Inst("mov", T, <<T_eax>>)),
                           Binop(Op_Lo, T, Val)),
                      Inst("cmpxchg", T_eax, <<Addr, T_eax, T>>)),
                 InstX8632Br("ne", <<"label">>)), LAMBDA c5 :
       Then(IF Val.k = "Var" THEN Emit(c5, Inst("FakeUse", NoOperand, <<Val>>)) ELSE c5,
            LAMBDA c6 :
            Emit(Emit(c6, Inst("FakeUse", NoOperand, <<VarOp(Addr.base)>>)),
                 Inst("mov", Dest, <<T_eax>>))))))))

\* The xadd and xchg sequences of lowerAtomicRMW.
ExchangeSequence(c, op, negate, Dest, Ptr, Val) ==
  Then(FormMemoryOperand(c, Ptr, OperandType(c.vs, Dest)), LAMBDA c1 :
  Then(_mov(c1, NoOperand, Val), LAMBDA c2 :
    LET T == c2.ret IN
    Emit(Emit(IF negate THEN Emit(c2, Inst("neg", T, <<T>>)) ELSE c2,
              Inst(op, T, <<c1.ret, T>>)),
         Inst("mov", Dest, <<T>>))))

lowerAtomicRMW(c, Dest, Operation, Ptr, Val) ==
  IF Operation \notin 1..Len(AtomicRMWOperations) THEN setError(c)
  ELSE LET Op == AtomicRMWOperations[Operation]
           Is64 == OperandType(c.vs, Dest) = "i64"
       IN
       CASE Op = "AtomicAdd" /\ Is64 ->
              expandAtomicRMWAsCmpxchg(c, "add", "adc", Dest, Ptr, Val)
         [] Op = "AtomicAdd" /\ ~Is64 ->
              ExchangeSequence(c, "xadd", FALSE, Dest, Ptr, Val)
         [] Op = "AtomicSub" /\ Is64 ->
              expandAtomicRMWAsCmpxchg(c, "sub", "sbb", Dest, Ptr, Val)
         [] Op = "AtomicSub" /\ ~Is64 ->
              ExchangeSequence(c, "xadd", TRUE, Dest, Ptr, Val)
         [] Op = "AtomicExchange" /\ Is64 ->
              expandAtomicRMWAsCmpxchg(c, "NULL", "NULL", Dest, Ptr, Val)
         [] Op = "AtomicExchange" /\ ~Is64 ->
              ExchangeSequence(c, "xchg", FALSE, Dest, Ptr, Val)
         [] Op = "AtomicOr" -> expandAtomicRMWAsCmpxchg(c, "or", "or", Dest, Ptr, Val)
         [] Op = "AtomicAnd" -> expandAtomicRMWAsCmpxchg(c, "and", "and", Dest, Ptr, Val)
         [] Op = "AtomicXor" -> expandAtomicRMWAsCmpxchg(c, "xor", "xor", Dest, Ptr, Val)

\* A rule that emits the fence of a store before it looks at the ordering.
AtomicStore_FenceFirst(c, Instr) ==
  Then(Emit(c, Inst("mfence", NoOperand, << >>)), LAMBDA c1 :
    IF ~VerifyMemoryOrder(Instr.srcs[3].val) THEN setError(c1)
    ELSE lowerStore(c1, Instr.srcs[1], Instr.srcs[2]))

AtomicStore(c, Instr) ==
  IF ~VerifyMemoryOrder(Instr.srcs[3].val) THEN setError(c)
  ELSE Emit(lowerStore(c, Instr.srcs[1], Instr.srcs[2]),
            Inst("mfence", NoOperand, << >>))

\* _cmov(Dest, Src0, Condition)
_cmov(Dest, Src0, Condition) ==
  [op |-> "cmov", dest |-> Dest, srcs |-> <<Dest, Src0>>, deleted |-> FALSE,
   cond |-> Condition]

\* The value that lowerCountZeros moves into T_Dest for a first value of
\* zero: ThirtyTwo for cttz, SixtyThree for ctlz, which the xor with 31
\* turns into 32.  The second form takes ThirtyTwo for both.
IfZero_AlwaysThirtyTwo(Cttz) == ConstOp("i32", 32)

IfZero(Cttz) == IF Cttz THEN ConstOp("i32", 32) ELSE ConstOp("i32", 63)

\* The second half of lowerCountZeros, for i64: zt is the context in which
\* T_Dest holds the count of the first value.
lowerCountZeros64(zt, Cttz, Dest, T_Dest, SecondVal) ==
  LET ThirtyTwo == ConstOp("i32", 32)
      ThirtyOne == ConstOp("i32", 31)
  IN
  Then(loOperand(Emit(zt, Binop("add", T_Dest, ThirtyTwo)), Dest), LAMBDA z5 :
  Then(hiOperand(z5, Dest), LAMBDA z6 :
  Then(legalizeToVar(z6, SecondVal, FALSE, NoRegister), LAMBDA z7 :
  Then(makeReg(z7, "i32", NoRegister), LAMBDA z8 :
    Then(Emit(z8, Inst(IF Cttz THEN "bsf" ELSE "bsr", z8.ret, <<z7.ret>>)),
         LAMBDA z9 :
    Then(IF Cttz THEN z9 ELSE Emit(z9, Binop("xor", z8.ret, ThirtyOne)),
         LAMBDA z10 :
    Then(Emit(z10, Inst("test", NoOperand, <<z7.ret, z7.ret>>)), LAMBDA z11 :
    Then(Emit(z11, _cmov(z8.ret, T_Dest, "e")), LAMBDA z12 :
    Then(Emit(z12, Inst("mov", z5.ret, <<z8.ret>>)), LAMBDA z13 :
         Emit(z13, Inst("mov", z6.ret, <<ConstOp("i32", 0)>>)))))))))))

lowerCountZeros(c, Cttz, Ty, Dest, FirstVal, SecondVal) ==
  LET ThirtyOne == ConstOp("i32", 31) IN
  Then(makeReg([c EXCEPT !.assertFailed = @ \/ Ty \notin {"i32", "i64"}],
               "i32", NoRegister), LAMBDA z1 :
  Then(legalize(z1, FirstVal, {Legal_Mem, Legal_Reg}, FALSE, NoRegister),
       LAMBDA z2 :
  Then(makeReg(Emit(z2, Inst(IF Cttz THEN "bsf" ELSE "bsr", z1.ret, <<z2.ret>>)),
               "i32", NoRegister), LAMBDA z3 :
  Then(Emit(Emit(z3, Inst("mov", z3.ret, <<IfZero(Cttz)>>)),
            _cmov(z3.ret, z1.ret, "ne")), LAMBDA z4 :
  Then(IF Cttz THEN z4 ELSE Emit(z4, Binop("xor", z3.ret, ThirtyOne)),
       LAMBDA zt :
       IF Ty = "i32" THEN Emit(zt, Inst("mov", Dest, <<z3.ret>>))
       ELSE lowerCountZeros64(zt, Cttz, Dest, z3.ret, SecondVal))))))

\* The cases Ctlz and Cttz of lowerIntrinsicCall.
CountZeros(c, Instr) ==
  Then(legalize(c, Instr.srcs[1], Legal_All, FALSE, NoRegister), LAMBDA cv :
    LET Val == cv.ret
        Ty == OperandType(cv.vs, Val)
        IsCttz == Instr.ID = "Cttz"
    IN IF Ty # "i64"
       THEN lowerCountZeros(cv, IsCttz, Ty, Instr.dest, Val, NoOperand)
       ELSE Then(loOperand(cv, Val), LAMBDA cl :
            Then(hiOperand(cl, Val), LAMBDA ch :
                 IF IsCttz
                 THEN lowerCountZeros(ch, TRUE, Ty, Instr.dest, ch.ret, cl.ret)
                 ELSE lowerCountZeros(ch, FALSE, Ty, Instr.dest, cl.ret, ch.ret))))

\* lowerIntrinsicCall on the atomic intrinsics, Ctlz, Cttz, Trap and
\* UnknownIntrinsic.
lowerIntrinsicCall(c, level, Instr, following) ==
  LET Arg(i) == Instr.srcs[i] IN
  CASE Instr.ID = "AtomicCmpxchg" ->
         IF ~VerifyMemoryOrder(Arg(4).val) THEN setError(c)
         ELSE IF ~VerifyMemoryOrder(Arg(5).val) THEN setError(c)
         ELSE Then(tryOptimizedCmpxchgCmpBr(c, level, following, Instr.dest,
                                            Arg(1), Arg(2), Arg(3)), LAMBDA c1 :
                   IF c1.ret = TRUE THEN c1
                   ELSE lowerAtomicCmpxchg(c1, Instr.dest, Arg(1), Arg(2), Arg(3)))
    [] Instr.ID = "AtomicFence" ->
         IF ~VerifyMemoryOrder(Arg(1).val) THEN setError(c)
         ELSE Emit(c, Inst("mfence", NoOperand, << >>))
    [] Instr.ID = "AtomicFenceAll" -> Emit(c, Inst("mfence", NoOperand, << >>))
    [] Instr.ID = "AtomicIsLockFree" ->
         IF Arg(1).k = "Const"
         THEN _mov(c, Instr.dest,
                   ConstOp("i32", IF Arg(1).val \in {1, 2, 4, 8} THEN 1 ELSE 0))
         ELSE setError(c)
    [] Instr.ID = "AtomicLoad" ->
         IF ~VerifyMemoryOrder(Arg(2).val) THEN setError(c)
         ELSE Then(lowerLoad(c, Instr.dest, Arg(1), following), LAMBDA c1 :
                   Emit(c1, Inst("FakeUse", NoOperand, <<c1.insts[Len(c1.insts)].dest>>)))
    [] Instr.ID = "AtomicRMW" ->
         IF ~VerifyMemoryOrder(Arg(4).val) THEN setError(c)
         ELSE lowerAtomicRMW(c, Instr.dest, Arg(1).val, Arg(2), Arg(3))
    [] Instr.ID = "AtomicStore" -> AtomicStore(c, Instr)
    [] Instr.ID \in {"Ctlz", "Cttz"} -> CountZeros(c, Instr)
    [] Instr.ID = "Trap" -> Emit(c, Inst("ud2", NoOperand, << >>))
    [] Instr.ID = "UnknownIntrinsic" -> setError(c)

(***************************************************************************)
(* lowerIcmp with a scalar Dest, and lowerSwitch.                          *)
(***************************************************************************)
\* InstIcmp
InstIcmp(cond, dest, src0, src1) ==
  [op |-> "Icmp", dest |-> dest, srcs |-> <<src0, src1>>, deleted |-> FALSE,
   cond |-> cond]

\* getIcmp32Mapping: the x86 condition of an integer compare.
getIcmp32Mapping(cond) ==
  CASE cond = "Eq" -> "e" [] cond = "Ne" -> "ne"
    [] cond = "Ugt" -> "a" [] cond = "Uge" -> "ae"
    [] cond = "Ult" -> "b" [] cond = "Ule" -> "be"
    [] cond = "Sgt" -> "g" [] cond = "Sge" -> "ge"
    [] cond = "Slt" -> "l" [] cond = "Sle" -> "le"

\* The compare of two i64 operands (lines 2669-2701); the conditions C1, C2
\* and C3 of TableIcmp64 are named after the compare's condition.
lowerIcmp64(c, cond, Dest, Src0, Src1) ==
  LET Zero == ConstOp("i32", 0)
      One == ConstOp("i32", 1)
      RM == {Legal_Reg, Legal_Mem}
      RI == {Legal_Reg, Legal_Imm}
      Cmp(a, b) == Inst("cmp", NoOperand, <<a, b>>)
      Label(name) == Inst("label", NoOperand, <<[k |-> "Label", name |-> name]>>)
      FakeUse == Inst("FakeUse", NoOperand, <<Dest>>)
  IN
  Then(loOperand(c, Src0), LAMBDA a1 :
  Then(legalize(a1, a1.ret, RM, FALSE, NoRegister), LAMBDA c1 :
  Then(hiOperand(c1, Src0), LAMBDA a2 :
  Then(legalize(a2, a2.ret, RM, FALSE, NoRegister), LAMBDA c2 :
  Then(loOperand(c2, Src1), LAMBDA a3 :
  Then(legalize(a3, a3.ret, RI, FALSE, NoRegister), LAMBDA c3 :
  Then(hiOperand(c3, Src1), LAMBDA a4 :
  Then(legalize(a4, a4.ret, RI, FALSE, NoRegister), LAMBDA c4 :
    LET Src0LoRM == c1.ret
        Src0HiRM == c2.ret
        Src1LoRI == c3.ret
        Src1HiRI == c4.ret
        emitted ==
          IF cond \in {"Eq", "Ne"}
          THEN << Inst("mov", Dest, <<IF cond = "Eq" THEN Zero ELSE One>>),
                  Cmp(Src0LoRM, Src1LoRI),
                  InstX8632Br("ne", <<"Label">>),
                  Cmp(Src0HiRM, Src1HiRI),
                  InstX8632Br("ne", <<"Label">>),
                  FakeUse,
                  Inst("mov", Dest, <<IF cond = "Eq" THEN One ELSE Zero>>),
                  Label("Label") >>
          ELSE << Inst("mov", Dest, <<One>>),
                  Cmp(Src0HiRM, Src1HiRI),
                  InstX8632Br(<<cond, "C1">>, <<"LabelTrue">>),
                  InstX8632Br(<<cond, "C2">>, <<"LabelFalse">>),
                  Cmp(Src0LoRM, Src1LoRI),
                  InstX8632Br(<<cond, "C3">>, <<"LabelTrue">>),
                  Label("LabelFalse"),
                  FakeUse,
                  Inst("mov", Dest, <<Zero>>),
                  Label("LabelTrue") >>
    IN [c4 EXCEPT !.insts = @ \o emitted]))))))))

\* A fused sequence with a second compare.
FuseCompareBranch_ComparesTwice(c, cond, Src0, Src0Allowed, Src1, NextBr) ==
  Then(legalize(c, Src0, Src0Allowed, TRUE, NoRegister), LAMBDA c3 :
       [Emit(Emit(Emit(c3, Inst("cmp", NoOperand, <<c3.ret, Src1>>)),
                  Inst("cmp", NoOperand, <<c3.ret, Src1>>)),
             InstX8632Br(getIcmp32Mapping(cond), NextBr.targets))
          EXCEPT !.consumed = 1])

\* The fused compare and branch (lines 2653-2663): NextBr is marked deleted
\* and stepped over.
FuseCompareBranch(c, cond, Src0, Src0Allowed, Src1, NextBr) ==
  Then(legalize(c, Src0, Src0Allowed, TRUE, NoRegister), LAMBDA c3 :
       [Emit(Emit(c3, Inst("cmp", NoOperand, <<c3.ret, Src1>>)),
             InstX8632Br(getIcmp32Mapping(cond), NextBr.targets))
          EXCEPT !.consumed = 1])

\* lowerIcmp of an icmp with a scalar Dest; following are the instructions
\* after it in the node.
lowerIcmp(c, Instr, following) ==
  Then(legalize(c, Instr.srcs[1], Legal_All, FALSE, NoRegister), LAMBDA c1 :
  Then(legalize(c1, Instr.srcs[2], Legal_All, FALSE, NoRegister), LAMBDA c2 :
    LET Src0 == c1.ret
        Src1 == c2.ret
        Dest == Instr.dest
        IsSrc1ImmOrReg == \/ Src1.k \in ConstantKinds
                          \/ (Src1.k = "Var" /\ hasReg(c2.vs[Src1.v]))
        Src0Allowed == IF IsSrc1ImmOrReg THEN {Legal_Reg, Legal_Mem} ELSE {Legal_Reg}
        fuses == /\ Len(following) >= 1
                 /\ following[1].op = "Br"
                 /\ OperandType(c2.vs, Src0) # "i64"
                 /\ ~isUnconditional(following[1])
                 /\ Dest = following[1].srcs[1]
                 /\ isLastUse(following[1], Dest)
    IN IF fuses
       THEN FuseCompareBranch(c2, Instr.cond, Src0, Src0Allowed, Src1, following[1])
       ELSE IF OperandType(c2.vs, Src0) = "i64"
       THEN lowerIcmp64(c2, Instr.cond, Dest, Src0, Src1)
       ELSE Then(legalize(c2, Src0, Src0Allowed, TRUE, NoRegister), LAMBDA c3 :
                 [c3 EXCEPT !.insts = @ \o
                    << Inst("cmp", NoOperand, <<c3.ret, Src1>>),
                       Inst("mov", Dest, <<ConstOp("i32", 1)>>),
                       InstX8632Br(getIcmp32Mapping(Instr.cond), <<"Label">>),
                       Inst("FakeUse", NoOperand, <<Dest>>),
                       Inst("mov", Dest, <<ConstOp("i32", 0)>>),
                       Inst("label", NoOperand, <<[k |-> "Label", name |-> "Label"]>>) >>])))

\* InstSwitch: srcs is the comparison; values and labels are those of the
\* cases.
InstSwitch(comparison, values, labels, labelDefault) ==
  [op |-> "Switch", dest |-> NoOperand, srcs |-> <<comparison>>, deleted |-> FALSE,
   values |-> values, labels |-> labels, labelDefault |-> labelDefault]

lowerSwitch(c, Instr) ==
  LET NumCases == Len(Instr.values) IN
  Then(IF NumCases >= 2
       THEN legalizeToVar(c, Instr.srcs[1], TRUE, NoRegister)
       ELSE legalize(c, Instr.srcs[1], {Legal_Reg, Legal_Mem}, TRUE, NoRegister), LAMBDA c1 :
    LET Src0 == c1.ret
        Case(I) == << Inst("cmp", NoOperand, <<Src0, ConstOp("i32", Instr.values[I])>>),
                      InstX8632Br("e", <<Instr.labels[I]>>) >>
        RECURSIVE Cases(_)
        Cases(I) == IF I > NumCases THEN << >> ELSE Case(I) \o Cases(I + 1)
    IN [c1 EXCEPT !.insts = @ \o Cases(1) \o
                    <<InstX8632Br("none", <<Instr.labelDefault>>)>>])

(***************************************************************************)
(* postLower: the register assignment of Om1.                              *)
(***************************************************************************)
\* The register table: the registers of 8-bit integers, of integers, and of
\* floating-point and vector values.
IntegerRegistersI8 == {Reg_eax, Reg_ecx, Reg_edx, Reg_ebx, Reg_ah}

IntegerRegisters == Reg_eax..Reg_edi

\* TypeToRegisterSet[Ty]
getRegisterSetForType(Ty) ==
  CASE Ty \in {"i1", "i8"} -> IntegerRegistersI8
    [] Ty \in {"i16", "i32", "i64"} -> IntegerRegisters
    [] OTHER -> XmmRegisters

\* The Variables of an operand, in the order of Operand::getVar.
OperandVars(op) ==
  CASE op.k = "Var" -> <<op.v>>
    [] op.k = "Mem" -> (IF op.base # 0 THEN <<op.base>> ELSE << >>)
                         \o (IF op.index # 0 THEN <<op.index>> ELSE << >>)
    [] OTHER -> << >>

RECURSIVE SrcVars(_)
SrcVars(srcs) ==
  IF srcs = << >> THEN << >> ELSE OperandVars(Head(srcs)) \o SrcVars(Tail(srcs))

\* The instructions that postLower looks at: those that are not deleted and
\* are no FakeKill.  The second form looks at FakeKill too.
IsColored_CountsFakeKill(inst) == ~inst.deleted

IsColored(inst) == ~inst.deleted /\ inst.op # "FakeKill"

\* The first pass on one instruction: st = [WhiteList, LastUses].
BlackListStep(st, insts, vs, k) ==
  IF ~IsColored(insts[k]) THEN st
  ELSE LET used == SrcVars(insts[k].srcs) IN
       [WhiteList |-> st.WhiteList \ {vs[used[j]].regNum : j \in 1..Len(used)},
        LastUses |-> [v \in 1..Len(vs) |->
                        IF \E j \in 1..Len(used) : used[j] = v THEN k
                        ELSE st.LastUses[v]]]

\* The register RegNum of the Variable v is released by the instruction k:
\* it joins FreedRegisters, which become available when the instruction is
\* done; freedAt keeps where each Variable's register was released.  In the
\* second form the register is available at once.
Release_AtOnce(st, v, k, RegNum) ==
  [st EXCEPT !.AvailableRegisters = @ \cup {RegNum}, !.freedAt[v] = k]

Release(st, v, k, RegNum) ==
  [st EXCEPT !.FreedRegisters = @ \cup {RegNum}, !.freedAt[v] = k]

\* The second pass on one Variable of the instruction k:
\* st = [vs, AvailableRegisters, FreedRegisters, assertFailed, freedAt].
ColorVar(st, v, k, WhiteList, LastUses) ==
  LET Typed == st.AvailableRegisters \cap getRegisterSetForType(st.vs[v].ty)
      assign == ~hasReg(st.vs[v]) /\ st.vs[v].weight = "Inf"
      \* find_first() of an empty set is -1
      RegNum == IF Typed = {} THEN NoRegister
                ELSE CHOOSE r \in Typed : \A q \in Typed : r <= q
      st1 == IF assign
             THEN [st EXCEPT !.vs[v].regNum = RegNum,
                             !.AvailableRegisters = @ \ {RegNum},
                             !.assertFailed = @ \/ Typed = {}]
             ELSE st
      \* the assert: the register of a Variable is not available
      st2 == [st1 EXCEPT !.assertFailed =
                           @ \/ (hasReg(st1.vs[v])
                                   /\ st1.vs[v].regNum \in st1.AvailableRegisters)]
  IN IF hasReg(st2.vs[v]) /\ LastUses[v] = k /\ st2.vs[v].regNum \in WhiteList
     THEN Release(st2, v, k, st2.vs[v].regNum)
     ELSE st2

ColorStep(st, insts, k, WhiteList, LastUses) ==
  IF ~IsColored(insts[k]) THEN st
  ELSE LET refs == SrcVars(insts[k].srcs) \o OperandVars(insts[k].dest)
           st1 == FoldSeq(LAMBDA s, v : ColorVar(s, v, k, WhiteList, LastUses),
                          [st EXCEPT !.FreedRegisters = {}], refs, 1)
       IN [st1 EXCEPT !.AvailableRegisters = @ \cup st1.FreedRegisters]

\* postLower() on the instructions insts from the one at cur on; the value
\* is [vs, assertFailed, freedAt].
postLower(level, vs, insts, cur, ebpBased) ==
  IF level # "Om1"
  THEN [vs |-> vs, assertFailed |-> FALSE, freedAt |-> [v \in 1..Len(vs) |-> 0]]
  ELSE LET range == [i \in 1..(Len(insts) - cur + 1) |-> cur + i - 1]
           first == FoldSeq(LAMBDA st, k : BlackListStep(st, insts, vs, k),
                            [WhiteList |-> (Registers \ {Reg_esp})
                                             \ (IF ebpBased THEN {Reg_ebp} ELSE {}),
                             LastUses |-> [v \in 1..Len(vs) |-> 0]],
                            range, 1)
           second == FoldSeq(LAMBDA st, k : ColorStep(st, insts, k, first.WhiteList,
                                                      first.LastUses),
                             [vs |-> vs, AvailableRegisters |-> first.WhiteList,
                              FreedRegisters |-> {}, assertFailed |-> FALSE,
                              freedAt |-> [v \in 1..Len(vs) |-> 0]],
                             range, 1)
       IN [vs |-> second.vs, assertFailed |-> second.assertFailed,
           freedAt |-> second.freedAt]

(***************************************************************************)
(* The drivers.  A driver is a list of statements: a call of a pass, the   *)
(* test "if (Func->hasError()) return;", or the guarded call of the nop    *)
(* insertion pass.                                                         *)
(***************************************************************************)
Call(p) == [op |-> "call", pass |-> p]
Check == [op |-> "check", pass |-> "-"]
Nop == [op |-> "nop", pass |-> "doNopInsertion"]

\* translateO2 with the address-mode optimization moved behind genCode.
TranslateO2_AddrOptAfterGenCode ==
  << Call("placePhiLoads"), Check, Call("placePhiStores"), Check,
     Call("deletePhis"), Check,
     Call("doArgLowering"),
     Call("renumberInstructions"), Check,
     Call("livenessBasic"), Check,
     Call("genCode"), Check,
     Call("doAddressOpt"),
     Call("renumberInstructions"), Check,
     Call("livenessIntervals"), Check,
     Call("validateLiveness"),
     Call("regAlloc"), Check,
     Call("genFrame"), Check,
     Nop >>

\* translateO2 without the test that follows genCode.
TranslateO2_NoCheckAfterGenCode ==
  << Call("placePhiLoads"), Check, Call("placePhiStores"), Check,
     Call("deletePhis"), Check,
     Call("doAddressOpt"),
     Call("doArgLowering"),
     Call("renumberInstructions"), Check,
     Call("livenessBasic"), Check,
     Call("genCode"),
     Call("renumberInstructions"), Check,
     Call("livenessIntervals"), Check,
     Call("validateLiveness"),
     Call("regAlloc"), Check,
     Call("genFrame"), Check,
     Nop >>

TranslateO2 ==
  << Call("placePhiLoads"), Check, Call("placePhiStores"), Check,
     Call("deletePhis"), Check,
     Call("doAddressOpt"),
     Call("doArgLowering"),
     Call("renumberInstructions"), Check,
     Call("livenessBasic"), Check,
     Call("genCode"), Check,
     Call("renumberInstructions"), Check,
     Call("livenessIntervals"), Check,
     Call("validateLiveness"),
     Call("regAlloc"), Check,
     Call("genFrame"), Check,
     Nop >>

TranslateOm1 ==
  << Call("placePhiLoads"), Check, Call("placePhiStores"), Check,
     Call("deletePhis"), Check,
     Call("doArgLowering"),
     Call("genCode"), Check,
     Call("genFrame"), Check,
     Nop >>

Driver == IF optLevel = "O2" THEN TranslateO2 ELSE TranslateOm1

\* The passes that can set the function's error state.  The target hooks of
\* doArgLowering (lowerArguments) and of doAddressOpt (doAddressOptLoad,
\* doAddressOptStore, computeAddressOpt) never call Func->setError, and
\* validateLiveness reports through its result; every other pass is followed
\* by a test of the error state in the drivers and may set it.
MaySetError(p) == p \notin {"doArgLowering", "doAddressOpt", "validateLiveness"}

Returned == pc = 0

AtStmt == IF pc \in 1..Len(Driver) THEN Driver[pc] ELSE [op |-> "end", pass |-> "-"]

Advance == pc' = IF pc < Len(Driver) THEN pc + 1 ELSE 0

\* Func-><pass>(): the pass runs and may set the error state.
CallPass ==
  /\ AtStmt.op = "call"
  /\ ran' = Append(ran, AtStmt.pass)
  /\ \E err \in BOOLEAN :
       /\ err => MaySetError(AtStmt.pass)
       /\ hasError' = (hasError \/ err)
  /\ Advance
  \* translateO2 sets ComputedLiveRanges once liveness has been validated.
  /\ ComputedLiveRanges' = (ComputedLiveRanges \/ AtStmt.pass = "validateLiveness")
  /\ UNCHANGED <<optLevel, doNops, funcVars, frameVars>>

\* if (Func->hasError()) return;
CheckHasError ==
  /\ AtStmt.op = "check"
  /\ pc' = IF hasError THEN 0 ELSE IF pc < Len(Driver) THEN pc + 1 ELSE 0
  /\ UNCHANGED <<optLevel, hasError, ran, doNops, funcVars, frameVars, ComputedLiveRanges>>

\* if (shouldDoNopInsertion()) Func->doNopInsertion();
NopInsertion ==
  /\ AtStmt.op = "nop"
  /\ ran' = IF doNops THEN Append(ran, AtStmt.pass) ELSE ran
  /\ Advance
  /\ UNCHANGED <<optLevel, hasError, doNops, funcVars, frameVars, ComputedLiveRanges>>

Init ==
  /\ optLevel \in {"O2", "Om1"}
  /\ doNops \in BOOLEAN
  /\ pc = 1
  /\ hasError = FALSE
  /\ ran = << >>
  /\ Variables = << >> /\ Args = << >> /\ Insts = << >>
  /\ PhysicalRegisters = NoPhysicalRegisters /\ Cur = 0 /\ LastCall = NoCall
  /\ IsEbpBasedFrame = FALSE /\ NeedsStackAlignment = FALSE
  /\ ComputedLiveRanges = FALSE /\ CallsReturnsTwice = FALSE
  /\ SpillAreaSizeBytes = 0 /\ RegsUsed = {} /\ HasComputedFrame = FALSE

Next == CallPass \/ CheckHasError \/ NopInsertion

Spec == Init /\ [][Next]_vars

(***************************************************************************)
(* Frame layout: addProlog.                                                *)
(***************************************************************************)
\* The Variables of the prepass that are linked to the spill slot of another
\* Variable: weight zero, register overlap, and a preferred Variable that has
\* no register.
IsLinkedToSpillSlot(vs, i) ==
  /\ vs[i].weight = "Zero" /\ vs[i].overlap
  /\ vs[i].pref # 0 /\ ~hasReg(vs[vs[i].pref])

\* A prepass that gives a spill slot to the Variables with a register too.
PrepassSkips_NotRegisters(vs, i, clr) ==
  vs[i].isArg \/ (clr /\ vs[i].liveEmpty)

\* The Variables the prepass passes over: those with a register, the
\* arguments, and the unreferenced ones.
PrepassSkips(vs, i, clr) ==
  hasReg(vs[i]) \/ vs[i].isArg \/ (clr /\ vs[i].liveEmpty)

PrepassRegsUsed(vs) == {vs[i].regNum : i \in {j \in 1..Len(vs) : hasReg(vs[j])}}

VariablesLinkedToSpillSlots(vs, clr) ==
  SelectSeq(Iota(Len(vs)),
            LAMBDA i : ~PrepassSkips(vs, i, clr) /\ IsLinkedToSpillSlot(vs, i))

SpilledVariables(vs, clr) ==
  SelectSeq(Iota(Len(vs)),
            LAMBDA i : ~PrepassSkips(vs, i, clr) /\ ~IsLinkedToSpillSlot(vs, i))

\* llvm::findFirstSet of a stack width (4, 8 or 16).
LogNaturalAlignment(ty) ==
  CASE typeWidthInBytesOnStack(ty) = 4 -> 2
    [] typeWidthInBytesOnStack(ty) = 8 -> 3
    [] typeWidthInBytesOnStack(ty) = 16 -> 4

NumBuckets == X86_LOG2_OF_MAX_STACK_SLOT_SIZE - X86_LOG2_OF_MIN_STACK_SLOT_SIZE + 1

Bucket(vs, Source, BucketIndex) ==
  SelectSeq(Source,
            LAMBDA i : LogNaturalAlignment(vs[i].ty)
                         - X86_LOG2_OF_MIN_STACK_SLOT_SIZE = BucketIndex)

\* A sort that leaves the Variables in the order of Source.
sortByAlignment_Unsorted(vs, Source) == Source

RECURSIVE sortByAlignmentFrom(_, _, _)
sortByAlignmentFrom(vs, Source, I) ==
  IF I >= NumBuckets THEN << >>
  ELSE Bucket(vs, Source, NumBuckets - I - 1) \o sortByAlignmentFrom(vs, Source, I + 1)

\* The Variables of Source by descending width on the stack, stable.
sortByAlignment(vs, Source) == sortByAlignmentFrom(vs, Source, 0)

\* The sizing loop over the sorted spilled Variables (lines 722-743).
SizeStep(st, v, SimpleCoalescing) ==
  LET Increment == typeWidthInBytesOnStack(v.ty)
      st1 == [st EXCEPT !.SpillAreaAlignmentBytes = IF @ = 0 THEN Increment ELSE @]
  IN IF SimpleCoalescing
     THEN IF isMultiblockLife(v)
          THEN [st1 EXCEPT !.GlobalsSize = @ + Increment]
          ELSE LET size == st1.LocalsSize[v.node] + Increment IN
               [st1 EXCEPT !.LocalsSize[v.node] = size,
                           !.SpillAreaSizeBytes = IF size > @ THEN size ELSE @,
                           !.LocalsSlotsAlignmentBytes = IF @ = 0 THEN Increment ELSE @]
     ELSE [st1 EXCEPT !.SpillAreaSizeBytes = @ + Increment]

SizePass(vs, Sorted, st, SimpleCoalescing) ==
  FoldSeq(LAMBDA s, i : SizeStep(s, vs[i], SimpleCoalescing), st, Sorted, 1)

\* The callee-save registers in use, in ascending register number: the order
\* of the pushes.
PushedRegs(regsUsed) ==
  SelectSeq([i \in 1..Reg_NUM |-> i - 1],
            LAMBDA r : r \in CalleeSaves /\ r \in regsUsed)

getFrameOrStackReg(ebpBased) == IF ebpBased THEN Reg_ebp ELSE Reg_esp

\* The sizes of the frame (lines 744-797), from the prepass and the flags.
FrameSizes(vs, clr, ebpBased, needsAlign, returnsTwice, numNodes) ==
  LET SimpleCoalescing == ~returnsTwice
      Sorted == sortByAlignment(vs, SpilledVariables(vs, clr))
      st == SizePass(vs, Sorted,
                     [SpillAreaAlignmentBytes |-> 0, GlobalsSize |-> 0,
                      LocalsSize |-> [n \in 1..numNodes |-> 0],
                      SpillAreaSizeBytes |-> 0, LocalsSlotsAlignmentBytes |-> 0],
                     SimpleCoalescing)
      LocalsSpillAreaSize == st.SpillAreaSizeBytes
      Size1 == st.SpillAreaSizeBytes + st.GlobalsSize
      Pushed == PushedRegs(PrepassRegsUsed(vs))
      PreservedRegsSizeBytes == 4 * Len(Pushed) + (IF ebpBased THEN 4 ELSE 0)
      PaddingStart == X86_RET_IP_SIZE_BYTES + PreservedRegsSizeBytes
      SpillAreaPaddingBytes ==
        IF st.SpillAreaAlignmentBytes # 0
        THEN applyAlignment(PaddingStart, st.SpillAreaAlignmentBytes) - PaddingStart
        ELSE 0
      Size2 == Size1 + SpillAreaPaddingBytes
      GlobalsAndSubsequentPaddingSize ==
        IF st.LocalsSlotsAlignmentBytes # 0
        THEN applyAlignment(st.GlobalsSize, st.LocalsSlotsAlignmentBytes)
        ELSE st.GlobalsSize
      Size3 == Size2 + (GlobalsAndSubsequentPaddingSize - st.GlobalsSize)
      StackOffset == X86_RET_IP_SIZE_BYTES + PreservedRegsSizeBytes
      Size4 == IF needsAlign
               THEN applyStackAlignment(StackOffset + Size3) - StackOffset
               ELSE Size3
  IN [Sorted |-> Sorted, Pushed |-> Pushed,
      PreservedRegsSizeBytes |-> PreservedRegsSizeBytes,
      SpillAreaAlignmentBytes |-> st.SpillAreaAlignmentBytes,
      LocalsSlotsAlignmentBytes |-> st.LocalsSlotsAlignmentBytes,
      GlobalsSize |-> st.GlobalsSize,
      LocalsSpillAreaSize |-> LocalsSpillAreaSize,
      SpillAreaPaddingBytes |-> SpillAreaPaddingBytes,
      GlobalsAndSubsequentPaddingSize |-> GlobalsAndSubsequentPaddingSize,
      SpillAreaSizeBytes |-> Size4]

\* The physical registers that addProlog asks for, in the order of its calls
\* of getPhysicalRegister.
PrologRegs(F, ebpBased) ==
  F.Pushed
    \o (IF ebpBased THEN <<Reg_ebp, Reg_esp>> ELSE << >>)
    \o (IF F.SpillAreaSizeBytes # 0 THEN <<Reg_esp>> ELSE << >>)
    \o <<getFrameOrStackReg(ebpBased)>>

\* The pushes, "push ebp; mov ebp, esp" and "sub esp, SpillAreaSizeBytes".
PrologInsts(fs, F, ebpBased) ==
  [i \in 1..Len(F.Pushed) |-> Inst("push", NoOperand, <<VarOp(fs.pr[F.Pushed[i]])>>)]
    \o (IF ebpBased
        THEN <<Inst("push", NoOperand, <<VarOp(fs.pr[Reg_ebp])>>),
               Inst("mov", VarOp(fs.pr[Reg_ebp]), <<VarOp(fs.pr[Reg_esp])>>)>>
        ELSE << >>)
    \o (IF F.SpillAreaSizeBytes # 0
        THEN <<Binop("sub", VarOp(fs.pr[Reg_esp]),
                     ConstOp("i32", F.SpillAreaSizeBytes))>>
        ELSE << >>)

\* finishArgumentLowering on the state st = [vs, InArgsSizeBytes, insts].
RECURSIVE finishArgumentLowering(_, _, _, _)
finishArgumentLowering(st, Arg, FramePtr, BasicFrameOffset) ==
  LET v == st.vs[Arg]
      Ty == v.ty
  IN IF v.lo # 0 /\ v.hi # 0 /\ Ty = "i64"
     THEN finishArgumentLowering(
            finishArgumentLowering(st, v.lo, FramePtr, BasicFrameOffset),
            v.hi, FramePtr, BasicFrameOffset)
     ELSE LET InArgs == IF isVectorType(Ty)
                        THEN applyStackAlignment(st.InArgsSizeBytes)
                        ELSE st.InArgsSizeBytes
              Offset == BasicFrameOffset + InArgs
          IN [vs |-> [st.vs EXCEPT ![Arg].stackOffset = Offset,
                                   ![Arg].hasOffset = TRUE],
              InArgsSizeBytes |-> InArgs + typeWidthInBytesOnStack(Ty),
              insts |-> IF hasReg(v)
                        THEN Append(st.insts,
                                    Inst(IF isVectorType(Ty) THEN "movp" ELSE "mov",
                                         VarOp(Arg),
                                         <<MemOp(Ty, FramePtr, Offset)>>))
                        ELSE st.insts]

\* An argument loop that takes every vector for one passed in a register.
ArgStep_NoXmmLimit(st, Arg, FramePtr, BasicFrameOffset) ==
  IF isVectorType(st.vs[Arg].ty)
  THEN [st EXCEPT !.NumXmmArgs = @ + 1]
  ELSE LET fin == finishArgumentLowering(
                    [vs |-> st.vs, InArgsSizeBytes |-> st.InArgsSizeBytes,
                     insts |-> st.insts],
                    Arg, FramePtr, BasicFrameOffset)
       IN [vs |-> fin.vs, InArgsSizeBytes |-> fin.InArgsSizeBytes,
           insts |-> fin.insts, NumXmmArgs |-> st.NumXmmArgs]

\* The body of the loop over the arguments (lines 815-823); st also counts
\* NumXmmArgs.
ArgStep(st, Arg, FramePtr, BasicFrameOffset) ==
  IF isVectorType(st.vs[Arg].ty) /\ st.NumXmmArgs < X86_MAX_XMM_ARGS
  THEN [st EXCEPT !.NumXmmArgs = @ + 1]
  ELSE LET fin == finishArgumentLowering(
                    [vs |-> st.vs, InArgsSizeBytes |-> st.InArgsSizeBytes,
                     insts |-> st.insts],
                    Arg, FramePtr, BasicFrameOffset)
       IN [vs |-> fin.vs, InArgsSizeBytes |-> fin.InArgsSizeBytes,
           insts |-> fin.insts, NumXmmArgs |-> st.NumXmmArgs]

ArgsPass(st, args, FramePtr, BasicFrameOffset) ==
  FoldSeq(LAMBDA s, a : ArgStep(s, a, FramePtr, BasicFrameOffset), st, args, 1)

\* A pass over the locals that overlays nothing.
LocalStep_NotOverlaid(st, i, F, ebpBased, SimpleCoalescing) ==
  LET v == st.vs[i]
      Increment == typeWidthInBytesOnStack(v.ty)
      st1 == [st EXCEPT !.NextStackOffset = @ + Increment]
      Offset == IF ebpBased THEN 0 - st1.NextStackOffset
                ELSE F.SpillAreaSizeBytes - st1.NextStackOffset
  IN [st1 EXCEPT !.vs[i].stackOffset = Offset, !.vs[i].hasOffset = TRUE]

\* The body of the loop that fills in the stack offsets of the locals
\* (lines 829-852).
LocalStep(st, i, F, ebpBased, SimpleCoalescing) ==
  LET v == st.vs[i]
      Increment == typeWidthInBytesOnStack(v.ty)
      st1 == IF SimpleCoalescing
             THEN IF isMultiblockLife(v)
                  THEN [st EXCEPT !.GlobalsSpaceUsed = @ + Increment,
                                  !.NextStackOffset = st.GlobalsSpaceUsed + Increment]
                  ELSE [st EXCEPT !.LocalsSize[v.node] = @ + Increment,
                                  !.NextStackOffset =
                                     F.SpillAreaPaddingBytes
                                     + F.GlobalsAndSubsequentPaddingSize
                                     + st.LocalsSize[v.node] + Increment]
             ELSE [st EXCEPT !.NextStackOffset = @ + Increment]
      Offset == IF ebpBased THEN 0 - st1.NextStackOffset
                ELSE F.SpillAreaSizeBytes - st1.NextStackOffset
  IN [st1 EXCEPT !.vs[i].stackOffset = Offset, !.vs[i].hasOffset = TRUE]

LocalsPass(st, Sorted, F, ebpBased, SimpleCoalescing) ==
  FoldSeq(LAMBDA s, i : LocalStep(s, i, F, ebpBased, SimpleCoalescing), st, Sorted, 1)

\* The Variables linked to the spill slot of another take its stack offset
\* (lines 858-864).
LinkedStep(vs, i) ==
  [vs EXCEPT ![i].stackOffset = vs[vs[i].pref].stackOffset, ![i].hasOffset = TRUE]

LinkedPass(vs, Linked) == FoldSeq(LinkedStep, vs, Linked, 1)

\* addProlog, the whole of it: the new Variables, the prolog and the
\* size of the spill area.
addProlog(vs, pr, args, clr, ebpBased, needsAlign, returnsTwice, numNodes) ==
  LET Sizes == FrameSizes(vs, clr, ebpBased, needsAlign, returnsTwice, numNodes)
  IN CHOOSE P \in
       {LET fs == getPhysicalRegisters(FuncState(vs, pr), PrologRegs(F, ebpBased))
            FramePtr == fs.pr[getFrameOrStackReg(ebpBased)]
            BasicFrameOffset ==
              F.PreservedRegsSizeBytes + X86_RET_IP_SIZE_BYTES
                + (IF ebpBased THEN 0 ELSE F.SpillAreaSizeBytes)
            A == ArgsPass([vs |-> fs.vs, InArgsSizeBytes |-> 0,
                           insts |-> PrologInsts(fs, F, ebpBased), NumXmmArgs |-> 0],
                          args, FramePtr, BasicFrameOffset)
            L == LocalsPass([vs |-> A.vs, GlobalsSpaceUsed |-> F.SpillAreaPaddingBytes,
                             LocalsSize |-> [n \in 1..numNodes |-> 0],
                             NextStackOffset |-> F.SpillAreaPaddingBytes],
                            F.Sorted, F, ebpBased, ~returnsTwice)
        IN [vs |-> LinkedPass(L.vs, VariablesLinkedToSpillSlots(vs, clr)),
            pr |-> fs.pr,
            insts |-> A.insts,
            RegsUsed |-> PrepassRegsUsed(vs),
            SpillAreaSizeBytes |-> F.SpillAreaSizeBytes] : F \in {Sizes}} : TRUE

(***************************************************************************)
(* The frame specification: genFrame is about to run addProlog on the      *)
(* entry node of a lowered, register-allocated function.                   *)
(***************************************************************************)
\* Func->getNumNodes().  The node n of the model is the node of index n - 1;
\* the node 0 of a Variable says that it has no single node of use.
NumNodes == 2

\* The number of Variables without a register.
MaxSpilled == 2

SpillTypes == {"i32", "f64", "v4f32"}

SeqsUpTo(S, n) == UNION {[1..k -> S] : k \in 0..n}

LocalKinds == [ty : SpillTypes, node : 0..NumNodes]

\* The flags that lowering can have left: lowerAlloca sets the two first
\* together, and a call (also one of a returns-twice function) sets the second.
FrameFlags ==
  {f \in [ebp : BOOLEAN, align : BOOLEAN, twice : BOOLEAN] :
     (f.ebp => f.align) /\ (f.twice => f.align)}

\* The driver at its call of a pass.
DriverAt(level, pass) ==
  LET D == IF level = "O2" THEN TranslateO2 ELSE TranslateOm1
      at == CHOOSE i \in 1..Len(D) : D[i] = Call(pass)
      before == SelectSeq(SubSeq(D, 1, at - 1), LAMBDA st : st.op = "call")
  IN [pc |-> at, ran |-> [i \in 1..Len(before) |-> before[i].pass]]

Aborted == pc = -1

\* The assertion of addProlog on the frame pointer.
FramePointerIsFree(vs, ebpBased) == ebpBased => Reg_ebp \notin PrepassRegsUsed(vs)

InitDriverAtGenFrame ==
  /\ optLevel \in {"O2", "Om1"}
  /\ doNops = FALSE
  /\ pc = DriverAt(optLevel, "genFrame").pc
  /\ ran = DriverAt(optLevel, "genFrame").ran
  /\ hasError = FALSE
  /\ ComputedLiveRanges = (optLevel = "O2")

\* The register allocator of O2 excludes the frame pointer of an ebp-based
\* frame; postLower of Om1 excludes it only from the alloca on.
InitFrame ==
  /\ InitDriverAtGenFrame
  /\ \E used \in SUBSET CalleeSaves, locals \in SeqsUpTo(LocalKinds, MaxSpilled),
        f \in FrameFlags :
       /\ (f.ebp /\ optLevel = "O2") => Reg_ebp \notin used
       /\ Variables =
            [i \in 1..Cardinality(used) |->
               [Var("i32", 0) EXCEPT !.regNum = RegSeq(used)[i],
                                     !.weight = "Inf"]]
            \o [i \in 1..Len(locals) |-> Var(locals[i].ty, locals[i].node)]
       /\ IsEbpBasedFrame = f.ebp
       /\ NeedsStackAlignment = f.align
       /\ CallsReturnsTwice = f.twice
  /\ Args = << >> /\ Insts = << >>
  /\ PhysicalRegisters = NoPhysicalRegisters /\ Cur = 0 /\ LastCall = NoCall
  /\ SpillAreaSizeBytes = 0 /\ RegsUsed = {} /\ HasComputedFrame = FALSE

\* addProlog(Node) on the entry node.
AddProlog ==
  /\ ~Aborted /\ ~HasComputedFrame
  /\ AtStmt = Call("genFrame")
  /\ \E P \in {addProlog(Variables, PhysicalRegisters, Args, ComputedLiveRanges,
                         IsEbpBasedFrame, NeedsStackAlignment, CallsReturnsTwice,
                         NumNodes)} :
        /\ Variables' = P.vs
        /\ PhysicalRegisters' = P.pr
        /\ Insts' = P.insts \o Insts
        /\ RegsUsed' = P.RegsUsed
        /\ SpillAreaSizeBytes' = P.SpillAreaSizeBytes
  /\ HasComputedFrame' = TRUE
  /\ UNCHANGED <<drvVars, Args, Cur, LastCall, IsEbpBasedFrame, NeedsStackAlignment,
                 CallsReturnsTwice, ComputedLiveRanges>>

\* A build with assertions stops in addProlog when a Variable holds the
\* frame pointer of an ebp-based frame.
AddPrologAssertFails ==
  /\ ~Aborted /\ ~HasComputedFrame
  /\ AtStmt = Call("genFrame")
  /\ ~FramePointerIsFree(Variables, IsEbpBasedFrame)
  /\ pc' = -1
  /\ UNCHANGED <<optLevel, hasError, ran, doNops, funcVars, frameVars,
                 ComputedLiveRanges>>

NextFrame == AddProlog \/ AddPrologAssertFails

SpecFrame == InitFrame /\ [][NextFrame]_vars

(***************************************************************************)
(* The frame specification with arguments: the same point of the driver,   *)
(* for a function with arguments, unreferenced Variables and Variables     *)
(* linked to the spill slot of another.                                    *)
(***************************************************************************)
\* The number of arguments of the function.
MaxArgs == 2

\* An argument as lowering and register allocation leave it: a scalar on the
\* stack, a scalar that the register allocator of O2 gave a register, an i64
\* that no instruction used (never split), an i64 split into its halves, a
\* vector, and a vector that the register allocator of O2 gave a register.
ArgKinds == {"i32", "i32reg", "i64", "i64split", "v4f32", "v4f32reg"}

RegAllocatedKinds == {"i32reg", "v4f32reg"}

\* The arguments that come first: none, or as many vectors as there are
\* registers for vector arguments.
XmmPrefixes == {<< >>, [i \in 1..X86_MAX_XMM_ARGS |-> "v4f32"]}

ArgKindType(kind) ==
  CASE kind \in {"i32", "i32reg"} -> "i32"
    [] kind \in {"i64", "i64split"} -> "i64"
    [] kind \in {"v4f32", "v4f32reg"} -> "v4f32"
    [] kind = "f64" -> "f64"

\* lowerArguments and split64 on the argument at position i, as they leave
\* the Variables and Args: a vector among the first X86_MAX_XMM_ARGS gets a
\* home register Variable that takes its place in Args; a split i64 gets its
\* two halves, arguments as well.
LowerArgStep(st, i, kinds) ==
  LET n == Len(st.vs)
      \* the register of a vector that the register allocator served
      allocated == IF kinds[i] = "v4f32reg" THEN Reg_xmm0 + 5 ELSE NoRegister
  IN
  CASE isVectorType(ArgKindType(kinds[i])) /\ st.NumXmmArgs < X86_MAX_XMM_ARGS ->
         [vs |-> Append([st.vs EXCEPT ![i].isArg = FALSE, ![i].regNum = allocated],
                        [Var("v4f32", 0) EXCEPT !.regNum = Reg_xmm0 + st.NumXmmArgs,
                                                !.isArg = TRUE]),
          args |-> [st.args EXCEPT ![i] = n + 1],
          NumXmmArgs |-> st.NumXmmArgs + 1]
    [] kinds[i] = "i64split" ->
         [st EXCEPT !.vs = [st.vs EXCEPT ![i].lo = n + 1, ![i].hi = n + 2]
                             \o <<[Var("i32", 0) EXCEPT !.isArg = TRUE],
                                  [Var("i32", 0) EXCEPT !.isArg = TRUE]>>]
    [] kinds[i] = "i32reg" ->
         [st EXCEPT !.vs[i].regNum = Reg_ecx]
    [] kinds[i] = "v4f32reg" ->
         [st EXCEPT !.vs[i].regNum = allocated]
    [] OTHER -> st

LoweredFunction(kinds, locals) ==
  LET nArgs == Len(kinds)
      argVars == [i \in 1..nArgs |->
                    [Var(ArgKindType(kinds[i]), 0) EXCEPT !.isArg = TRUE]]
      \* the locals refer to each other by position among the locals
      localVars == [i \in 1..Len(locals) |->
                      [locals[i] EXCEPT !.pref = IF @ = 0 THEN 0 ELSE @ + nArgs]]
  IN FoldSeq(LAMBDA st, i : LowerArgStep(st, i, kinds),
             [vs |-> argVars \o localVars, args |-> Iota(nArgs), NumXmmArgs |-> 0],
             Iota(nArgs), 1)

\* The Variables other than the arguments: none, a spilled one, an
\* unreferenced one, a spill slot linked to a spilled Variable, and one
\* linked to a Variable that has a register.
LocalShapes ==
  { << >>,
    <<Var("i32", 1)>>,
    <<[Var("i32", 1) EXCEPT !.liveEmpty = TRUE]>>,
    <<Var("f64", 0),
      [Var("f64", 1) EXCEPT !.weight = "Zero", !.overlap = TRUE, !.pref = 1]>>,
    <<[Var("i32", 1) EXCEPT !.regNum = Reg_esi, !.weight = "Inf"],
      [Var("i32", 1) EXCEPT !.weight = "Zero", !.overlap = TRUE, !.pref = 1]>> }

InitFrameArgs ==
  /\ InitDriverAtGenFrame
  /\ \E prefix \in XmmPrefixes, kinds \in SeqsUpTo(ArgKinds, MaxArgs),
        locals \in LocalShapes, f \in FrameFlags :
       /\ optLevel = "Om1" =>
             \A i \in 1..Len(kinds) : kinds[i] \notin RegAllocatedKinds
       /\ Variables = LoweredFunction(prefix \o kinds, locals).vs
       /\ Args = LoweredFunction(prefix \o kinds, locals).args
       /\ IsEbpBasedFrame = f.ebp
       /\ NeedsStackAlignment = f.align
       /\ CallsReturnsTwice = f.twice
  /\ Insts = << >>
  /\ PhysicalRegisters = NoPhysicalRegisters /\ Cur = 0 /\ LastCall = NoCall
  /\ SpillAreaSizeBytes = 0 /\ RegsUsed = {} /\ HasComputedFrame = FALSE

NextFrameArgs == AddProlog

SpecFrameArgs == InitFrameArgs /\ [][NextFrameArgs]_vars

(***************************************************************************)
(* Lowering of one instruction: TargetLowering::lower() calls the lowering *)
(* method of the instruction at Cur, marks the instruction deleted, runs   *)
(* postLower() and advances Cur to the insertion point.                    *)
(***************************************************************************)
\* The node's list after the lowering method: the instructions it inserted
\* stand before the insertion point, right after the current instruction.
InsertLowered(insts, cur, c) ==
  SubSeq(insts, 1, cur - 1)
    \o <<[insts[cur] EXCEPT !.deleted = TRUE]>>
    \o c.insts
    \o [i \in 1..(Len(insts) - cur) |->
          IF i <= c.consumed THEN [insts[cur + i] EXCEPT !.deleted = TRUE]
          ELSE insts[cur + i]]

CanLower(op) ==
  /\ ~Aborted
  /\ AtStmt = Call("genCode")
  /\ Cur \in 1..Len(Insts)
  /\ ~Insts[Cur].deleted
  /\ Insts[Cur].op = op

\* The state after lower(), c being the context that the lowering method
\* left.
LoweredWith(c, ebpBased) ==
  LET lowered == InsertLowered(Insts, Cur, c) IN
  \E P \in {postLower(optLevel, c.vs, lowered, Cur, ebpBased)} :
    /\ Variables' = P.vs
    /\ PhysicalRegisters' = c.pr
    /\ Insts' = lowered
    /\ Cur' = Cur + 1 + Len(c.insts) + c.consumed
    /\ hasError' = (hasError \/ c.error)
    /\ UNCHANGED <<optLevel, pc, ran, doNops, Args, ComputedLiveRanges,
                   CallsReturnsTwice, SpillAreaSizeBytes, RegsUsed, HasComputedFrame>>

LoweredState(c) == LoweredWith(c, IsEbpBasedFrame)

Lowered(c) == LoweredState(c) /\ UNCHANGED LastCall

\* The driver in genCode, before the first instruction of a node.
InitDriverAtGenCode ==
  /\ optLevel \in {"O2", "Om1"}
  /\ doNops = FALSE
  /\ pc = DriverAt(optLevel, "genCode").pc
  /\ ran = DriverAt(optLevel, "genCode").ran
  /\ hasError = FALSE
  /\ ComputedLiveRanges = FALSE
  /\ Args = << >>
  /\ PhysicalRegisters = NoPhysicalRegisters
  /\ Cur = 1
  /\ LastCall = NoCall
  /\ CallsReturnsTwice = FALSE
  /\ SpillAreaSizeBytes = 0 /\ RegsUsed = {} /\ HasComputedFrame = FALSE

(***************************************************************************)
(* The call specification: genCode on a node that holds one call.          *)
(***************************************************************************)
\* The number of arguments of the call after the vectors that fill the
\* registers.
MaxCallArgs == 2

\* An argument of the call: a Variable of the type, or the constant.
CallArgKinds == {"i32", "i64", "f64", "v4f32", "const"}

CallDestTypes == {"void", "i32", "i64", "f32", "v4f32"}

\* The Variables of the arguments, then the one of the result.
CallVariables(kinds, destTy) ==
  [i \in 1..Len(kinds) |->
     Var(IF kinds[i] = "const" THEN "i32" ELSE kinds[i], 1)]
    \o (IF destTy = "void" THEN << >> ELSE <<Var(destTy, 1)>>)

CallInstruction(kinds, destTy, sideEffects) ==
  InstCall(IF destTy = "void" THEN NoOperand ELSE VarOp(Len(kinds) + 1),
           RelocOp("callee"),
           [i \in 1..Len(kinds) |->
              IF kinds[i] = "const" THEN ConstOp("i32", 7) ELSE VarOp(i)],
           sideEffects)

InitCall ==
  /\ InitDriverAtGenCode
  /\ \E prefix \in XmmPrefixes, kinds \in SeqsUpTo(CallArgKinds, MaxCallArgs),
        destTy \in CallDestTypes, sideEffects \in BOOLEAN :
       /\ Variables = CallVariables(prefix \o kinds, destTy)
       /\ Insts = <<CallInstruction(prefix \o kinds, destTy, sideEffects)>>
  /\ IsEbpBasedFrame = FALSE
  /\ NeedsStackAlignment = FALSE

\* lower() on a call.
LowerCall ==
  /\ CanLower("Call")
  /\ \E c \in {lowerCall(LoweringContext(Variables, PhysicalRegisters, 1), Insts[Cur])} :
       Lowered(c)
  /\ NeedsStackAlignment' = TRUE
  /\ UNCHANGED IsEbpBasedFrame

NextCall == LowerCall

SpecCall == InitCall /\ [][NextCall]_vars

(***************************************************************************)
(* The lowering specification: genCode on a node that starts with an       *)
(* intrinsic call, a phi, a cast, an icmp or a switch.                     *)
(***************************************************************************)
\* The most cases of a switch.
MaxCases == 2

\* Intrinsics::MemoryOrderInvalid
MemoryOrderInvalid == 0

MemoryOrders == {MemoryOrderInvalid, MemoryOrderSequentiallyConsistent}

\* The Variables of the node: an i32 result, an i32 address, two i32
\* values, an i1 condition, two i64 values, an f32 and an f64 value.
NodeVariables ==
  <<Var("i32", 1), Var("i32", 1), Var("i32", 1), Var("i32", 1), Var("i1", 1),
    Var("i64", 1), Var("i64", 1), Var("f32", 1), Var("f64", 1)>>

Order(o) == ConstOp("i32", o)

IntrinsicCalls ==
  {InstIntrinsicCall("AtomicCmpxchg", VarOp(1),
                     <<VarOp(2), VarOp(3), VarOp(4), Order(s), Order(f)>>) :
     s \in MemoryOrders, f \in MemoryOrders}
  \cup {InstIntrinsicCall("AtomicFence", NoOperand, <<Order(o)>>) : o \in MemoryOrders}
  \cup {InstIntrinsicCall("AtomicFenceAll", NoOperand, << >>)}
  \cup {InstIntrinsicCall("AtomicIsLockFree", VarOp(1), <<size, VarOp(2)>>) :
          size \in {ConstOp("i32", 4), ConstOp("i32", 3), VarOp(3)}}
  \cup {InstIntrinsicCall("AtomicLoad", VarOp(1), <<VarOp(2), Order(o)>>) :
          o \in MemoryOrders}
  \cup {InstIntrinsicCall("AtomicRMW", VarOp(1),
                          <<ConstOp("i32", operation), VarOp(2), VarOp(3), Order(o)>>) :
          operation \in 0..(Len(AtomicRMWOperations) + 1), o \in MemoryOrders}
  \cup {InstIntrinsicCall("AtomicStore", NoOperand, <<value, VarOp(2), Order(o)>>) :
          value \in {VarOp(3), ConstOp("i32", 7)}, o \in MemoryOrders}
  \cup {InstIntrinsicCall("Trap", NoOperand, << >>),
        InstIntrinsicCall("UnknownIntrinsic", NoOperand, << >>)}

Casts ==
  {InstCast("Trunc", VarOp(5), VarOp(3)), InstCast("Trunc", VarOp(1), VarOp(6)),
   InstCast("Fpext", VarOp(9), VarOp(8)), InstCast("Unknown", VarOp(1), VarOp(3))}

Icmps ==
  {InstIcmp(cond, VarOp(5), ops[1], ops[2]) :
     cond \in {"Eq", "Slt"},
     ops \in {<<VarOp(3), VarOp(4)>>, <<VarOp(3), ConstOp("i32", 7)>>,
              <<ConstOp("i32", 7), VarOp(3)>>, <<VarOp(6), VarOp(7)>>}}

Switches ==
  {InstSwitch(comparison, [i \in 1..n |-> i], [i \in 1..n |-> "case"], "default") :
     comparison \in {VarOp(3), VarOp(6), ConstOp("i32", 5)}, n \in 0..MaxCases}

\* The ways a node ends after its first instruction: a branch, conditional
\* on the i1 Variable or not, behind an icmp or not.  Liveness, which says
\* where a live range ends, has run at O2 only.
NodeEnds(level) ==
  LET lastUses == IF level = "O2" THEN {{}, {5}} ELSE {{}}
      branches == {InstBr(<<VarOp(5)>>, <<"true", "false">>, u) : u \in lastUses}
                    \cup {InstBr(<< >>, <<"target">>, {})}
  IN {<<br>> : br \in branches}
       \cup {<<InstIcmp("Eq", VarOp(5), VarOp(1), VarOp(3)), br>> : br \in branches}

InitLower ==
  /\ InitDriverAtGenCode
  /\ Variables = NodeVariables
  /\ \/ \E first \in IntrinsicCalls \cup {Inst("Phi", VarOp(1), <<VarOp(3), VarOp(4)>>)}
                       \cup Casts \cup Icmps,
           end \in NodeEnds(optLevel) :
          Insts = <<first>> \o end
     \/ \E switch \in Switches : Insts = <<switch>>
  /\ IsEbpBasedFrame = FALSE
  /\ NeedsStackAlignment = FALSE

\* The instructions after the current one.
Following == SubSeq(Insts, Cur + 1, Len(Insts))

NewContext == LoweringContext(Variables, PhysicalRegisters, 1)

LowerIntrinsicCall ==
  /\ CanLower("IntrinsicCall")
  /\ \E c \in {lowerIntrinsicCall(NewContext, optLevel, Insts[Cur], Following)} :
       Lowered(c)
  /\ UNCHANGED <<IsEbpBasedFrame, NeedsStackAlignment>>

LowerPhi ==
  /\ CanLower("Phi")
  /\ \E c \in {lowerPhi(NewContext)} : Lowered(c)
  /\ UNCHANGED <<IsEbpBasedFrame, NeedsStackAlignment>>

LowerCast ==
  /\ CanLower("Cast")
  /\ \E c \in {lowerCast(NewContext, Insts[Cur])} : Lowered(c)
  /\ UNCHANGED <<IsEbpBasedFrame, NeedsStackAlignment>>

LowerIcmp ==
  /\ CanLower("Icmp")
  /\ \E c \in {lowerIcmp(NewContext, Insts[Cur], Following)} : Lowered(c)
  /\ UNCHANGED <<IsEbpBasedFrame, NeedsStackAlignment>>

LowerBr ==
  /\ CanLower("Br")
  /\ \E c \in {lowerBr(NewContext, Insts[Cur])} : Lowered(c)
  /\ UNCHANGED <<IsEbpBasedFrame, NeedsStackAlignment>>

LowerSwitch ==
  /\ CanLower("Switch")
  /\ \E c \in {lowerSwitch(NewContext, Insts[Cur])} : Lowered(c)
  /\ UNCHANGED <<IsEbpBasedFrame, NeedsStackAlignment>>

\* The build with assertions stops at the assert of makeReg.
LowerSwitchAssertFails ==
  /\ CanLower("Switch")
  /\ lowerSwitch(NewContext, Insts[Cur]).assertFailed
  /\ pc' = -1
  /\ UNCHANGED <<optLevel, hasError, ran, doNops, funcVars, frameVars,
                 ComputedLiveRanges>>

NextLower ==
  \/ LowerIntrinsicCall
  \/ LowerPhi
  \/ LowerCast
  \/ LowerIcmp
  \/ LowerBr
  \/ LowerSwitch
  \/ LowerSwitchAssertFails

SpecLower == InitLower /\ [][NextLower]_vars

(***************************************************************************)
(* The split specification: split64, loOperand and hiOperand called on     *)
(* the operands of a function, in any order and any number of times.       *)
(***************************************************************************)
\* The most Variables of the function before any is split.
MaxSplitVars == 2

SplitTypes == {"i32", "i64", "f64", "v4f32"}

InitSplit ==
  /\ InitDriverAtGenCode
  /\ \E tys \in SeqsUpTo(SplitTypes, MaxSplitVars) :
       /\ tys # << >>
       /\ \E isArg \in [1..Len(tys) -> BOOLEAN] :
            Variables = [i \in 1..Len(tys) |-> [Var(tys[i], 1) EXCEPT !.isArg = isArg[i]]]
  /\ Insts = << >>
  /\ IsEbpBasedFrame = FALSE
  /\ NeedsStackAlignment = FALSE

\* The state after the call of a helper that left the context c.
Called(call, operand, c) ==
  /\ Variables' = c.vs
  /\ LastCall' = [call |-> call, operand |-> operand, ret |-> c.ret, before |-> Variables]
  /\ UNCHANGED <<drvVars, Args, Insts, PhysicalRegisters, Cur, frameVars,
                 ComputedLiveRanges>>

\* The operands of type i64: the callers of loOperand and hiOperand pass no
\* other.
Operands64 ==
  {VarOp(i) : i \in {j \in 1..Len(Variables) : Variables[j].ty = "i64"}}
    \cup {Const64(1, 2)}

Split64 ==
  \E i \in 1..Len(Variables) :
    \E c \in {split64(NewContext, i)} : Called("split64", VarOp(i), c)

LoOperand ==
  \E operand \in Operands64 :
    \E c \in {loOperand(NewContext, operand)} : Called("loOperand", operand, c)

HiOperand ==
  \E operand \in Operands64 :
    \E c \in {hiOperand(NewContext, operand)} : Called("hiOperand", operand, c)

NextSplit == Split64 \/ LoOperand \/ HiOperand

SpecSplit == InitSplit /\ [][NextSplit]_vars

(***************************************************************************)
(* The legalize specification: legalize(op, Allowed) on an operand of the  *)
(* function, and then on the operand that it returned.                     *)
(***************************************************************************)
\* The Variables of the function: an i32 on the stack, an i32 of infinite
\* weight, an i32 in eax, an f32, a v4f32 and an i64.
LegalizeVariables ==
  <<Var("i32", 1),
    [Var("i32", 1) EXCEPT !.weight = "Inf"],
    [Var("i32", 1) EXCEPT !.regNum = Reg_eax],
    Var("f32", 1), Var("v4f32", 1), Var("i64", 1)>>

LegalizeOperands ==
  {VarOp(i) : i \in 1..Len(LegalizeVariables)}
    \cup {ConstOp("i32", 7), Const64(1, 2), FloatOp("f32"), FloatOp("f64"),
          RelocOp("global")}
    \cup {UndefOp(ty) : ty \in {"i32", "i64", "f32", "v4f32"}}
    \cup {[MemOp("i32", base, 8) EXCEPT !.index = index] :
            base \in 0..3, index \in 0..2}

\* The sets of operand kinds that a caller allows: a register always.
AllowedSets == {{Legal_Reg} \cup S : S \in SUBSET {Legal_Imm, Legal_Mem, Legal_Reloc}}

InitLegalize ==
  /\ InitDriverAtGenCode
  /\ Variables = LegalizeVariables
  /\ Insts = << >>
  /\ IsEbpBasedFrame = FALSE
  /\ NeedsStackAlignment = FALSE

\* The state after legalize(operand, Allowed, AllowOverlap) left the
\* context c; again says that the operand is the one that the call before
\* returned.
Legalized(operand, Allowed, AllowOverlap, again, c) ==
  /\ Variables' = c.vs
  /\ PhysicalRegisters' = c.pr
  /\ Insts' = Insts \o c.insts
  /\ LastCall' = [call |-> "legalize", operand |-> operand, allowed |-> Allowed,
                  overlap |-> AllowOverlap, ret |-> c.ret, before |-> Variables,
                  inserted |-> Len(c.insts), again |-> again]
  /\ UNCHANGED <<drvVars, Args, Cur, frameVars, ComputedLiveRanges>>

Legalize ==
  /\ ~Aborted
  /\ LastCall = NoCall
  /\ \E operand \in LegalizeOperands, Allowed \in AllowedSets, AllowOverlap \in BOOLEAN :
       \E c \in {legalize(NewContext, operand, Allowed, AllowOverlap, NoRegister)} :
         Legalized(operand, Allowed, AllowOverlap, FALSE, c)

LegalizeAgain ==
  /\ ~Aborted
  /\ LastCall # NoCall
  /\ \E c \in {legalize(NewContext, LastCall.ret, LastCall.allowed, LastCall.overlap,
                        NoRegister)} :
       Legalized(LastCall.ret, LastCall.allowed, LastCall.overlap, TRUE, c)

\* The build with assertions stops at the assert of makeReg when an i64
\* operand is copied to a register.
LegalizeAssertFails ==
  /\ ~Aborted
  /\ LastCall = NoCall
  /\ \E operand \in LegalizeOperands, Allowed \in AllowedSets :
       legalize(NewContext, operand, Allowed, FALSE, NoRegister).assertFailed
  /\ pc' = -1
  /\ UNCHANGED <<optLevel, hasError, ran, doNops, funcVars, frameVars,
                 ComputedLiveRanges>>

NextLegalize == Legalize \/ LegalizeAgain \/ LegalizeAssertFails

SpecLegalize == InitLegalize /\ [][NextLegalize]_vars

(***************************************************************************)
(* Address-mode optimization: computeAddressOpt, doAddressOptLoad and      *)
(* doAddressOptStore.  The node holds high-level instructions: "Assign",   *)
(* "Add", "Sub" and "Mul" define the Variables of an address computation,  *)
(* "Load" has the address as its only source, "Store" has the data and     *)
(* then the address.                                                       *)
(***************************************************************************)
\* Variable::getDefinition: the single instruction that defines v, or
\* NoDefinition for a Variable without one or with several.
NoDefinition == [op |-> "None"]

getDefinition(insts, v) ==
  LET Defs == {i \in 1..Len(insts) : insts[i].dest = VarOp(v)}
  IN IF Cardinality(Defs) = 1 THEN insts[CHOOSE i \in Defs : TRUE]
     ELSE NoDefinition

\* llvm::dyn_cast<Variable>(Operand): the Variable, or 0 (NULL) for any
\* other kind of operand.  The second form also takes the base out of a
\* memory operand.
dynCastVariable_LooksIntoMem(Operand) ==
  CASE Operand.k = "Var" -> Operand.v
    [] Operand.k = "Mem" -> Operand.base
    [] OTHER -> 0

dynCastVariable(Operand) == IF Operand.k = "Var" THEN Operand.v ELSE 0

isConstantInteger(Operand) == Operand.k = "Const" /\ Operand.ty = "i32"

\* A LogMult that takes 3 for 2.
LogMult_RoundsDown(Mult) ==
  CASE Mult = 1 -> 0 [] Mult \in {2, 3} -> 1 [] Mult = 4 -> 2 [] Mult = 8 -> 3
    [] OTHER -> 4

\* The shift that a multiplication by Mult stands for; 4 when it is none.
LogMult(Mult) ==
  CASE Mult = 1 -> 0 [] Mult = 2 -> 1 [] Mult = 4 -> 2 [] Mult = 8 -> 3
    [] OTHER -> 4

\* One round of computeAddressOpt's loop over st = [Base, Index, Shift,
\* Offset]: the rewritten st, with again = FALSE when the loop breaks.
AddressOptStep(insts, st) ==
  LET BaseInst == getDefinition(insts, st.Base)
      HasBase == BaseInst.op # "None"
      BaseVariable0 == IF HasBase /\ Len(BaseInst.srcs) >= 1
                       THEN dynCastVariable(BaseInst.srcs[1]) ELSE 0
      BaseVariable1 == IF HasBase /\ Len(BaseInst.srcs) >= 2
                       THEN dynCastVariable(BaseInst.srcs[2]) ELSE 0
      IndexInst == IF st.Index # 0 THEN getDefinition(insts, st.Index)
                   ELSE NoDefinition
      IndexFolds ==
        /\ IndexInst.op = "Mul"
        /\ dynCastVariable(IndexInst.srcs[1]) # 0
        /\ isConstantInteger(IndexInst.srcs[2])
        /\ st.Shift + LogMult(IndexInst.srcs[2].val) <= 3
      IsAdd == BaseInst.op = "Add"
      Src0IsVar == dynCastVariable(BaseInst.srcs[1]) # 0
      VarConst ==
        IF Src0IsVar
        THEN [Var |-> BaseInst.srcs[1].v,
              Const |-> IF isConstantInteger(BaseInst.srcs[2])
                        THEN BaseInst.srcs[2] ELSE NoOperand]
        ELSE IF IsAdd
        THEN [Var |-> dynCastVariable(BaseInst.srcs[2]),
              Const |-> IF isConstantInteger(BaseInst.srcs[1])
                        THEN BaseInst.srcs[1] ELSE NoOperand]
        ELSE [Var |-> 0, Const |-> NoOperand]
  IN CASE BaseInst.op = "Assign" /\ BaseVariable0 # 0 ->
            [st EXCEPT !.Base = BaseVariable0]
       [] ~(BaseInst.op = "Assign" /\ BaseVariable0 # 0)
          /\ st.Index = 0 /\ IsAdd /\ BaseVariable0 # 0 /\ BaseVariable1 # 0 ->
            [st EXCEPT !.Base = BaseVariable0, !.Index = BaseVariable1,
                       !.Shift = 0]
       [] OTHER ->
            IF IndexFolds
            THEN [st EXCEPT !.Index = IndexInst.srcs[1].v,
                            !.Shift = @ + LogMult(IndexInst.srcs[2].val)]
            ELSE IF BaseInst.op \in {"Add", "Sub"}
                    /\ VarConst.Var # 0 /\ VarConst.Const # NoOperand
            THEN [st EXCEPT !.Base = VarConst.Var,
                            !.Offset = IF IsAdd
                                       THEN WrapAdd32(@, VarConst.Const.val)
                                       ELSE WrapAdd32(@, -VarConst.Const.val)]
            ELSE [st EXCEPT !.again = FALSE]

RECURSIVE AddressOptLoop(_, _)
AddressOptLoop(insts, st) ==
  IF st.again
  THEN Then(AddressOptStep(insts, st), LAMBDA st1 : AddressOptLoop(insts, st1))
  ELSE st

\* computeAddressOpt(Func, Instr, Base, Index, Shift, Offset): the four
\* in-out arguments after the call.
computeAddressOpt(vs, insts, Base, Index, Shift, Offset) ==
  LET st == [Base |-> Base, Index |-> Index, Shift |-> Shift,
             Offset |-> Offset, again |-> TRUE]
  IN IF Base = 0 \/ isMultiblockLife(vs[Base]) THEN st
     ELSE AddressOptLoop(insts, st)

\* Context.insert(I): I goes in before Next, which is after Cur.
ContextInsert(insts, cur, I) ==
  SubSeq(insts, 1, cur) \o <<I>> \o SubSeq(insts, cur + 1, Len(insts))

\* The common body of doAddressOptLoad and doAddressOptStore on the
\* instruction at cur, whose address is Addr; Ty is the type of the memory
\* operand and Rewritten(Mem) the instruction that replaces the one at cur.
doAddressOpt(vs, insts, cur, Addr, Ty, Rewritten(_)) ==
  \* Base = llvm::dyn_cast<Variable>(Addr)
  Then(computeAddressOpt(vs, insts, dynCastVariable(Addr), 0, 0, 0),
       LAMBDA st :
         IF st.Base # 0 /\ Addr # VarOp(st.Base)
         THEN ContextInsert([insts EXCEPT ![cur].deleted = TRUE], cur,
                Rewritten([MemOp(Ty, st.Base, st.Offset)
                             EXCEPT !.index = st.Index, !.shift = st.Shift]))
         ELSE insts)

doAddressOptLoad(vs, insts, cur) ==
  LET I == insts[cur]
  IN doAddressOpt(vs, insts, cur, I.srcs[1], OperandType(vs, I.dest),
                  LAMBDA Mem : Inst("Load", I.dest, <<Mem>>))

doAddressOptStore(vs, insts, cur) ==
  LET I == insts[cur]
  IN doAddressOpt(vs, insts, cur, I.srcs[2], OperandType(vs, I.srcs[1]),
                  LAMBDA Mem : Inst("Store", NoOperand, <<I.srcs[1], Mem>>))

(***************************************************************************)
(* SpecAddrOpt: a node of MaxDefs address computations followed by a load  *)
(* or a store; the address-mode optimization runs on the loads and stores  *)
(* of the node that are not deleted, any number of times.                  *)
(***************************************************************************)
MaxDefs == 2

\* Variables 1 and 2 come from outside the node, Variable 2 + k is defined
\* by the k-th instruction, and the last Variable is loaded or stored.
NumAddrVars == MaxDefs + 3

AddrConstants == {ConstOp("i32", 4), ConstOp("i32", 3)}

\* The instructions that may define Variable v out of earlier Variables.
AddrDefs(v) ==
  LET Vs == {VarOp(i) : i \in 1..(v - 1)}
      Four == {ConstOp("i32", 4)}
      VarConst == (Vs \X Four) \cup (Four \X Vs)
  IN {Inst("Assign", VarOp(v), <<x>>) : x \in Vs \cup Four}
     \cup {Inst("Add", VarOp(v), <<p[1], p[2]>>) :
             p \in (Vs \X Vs) \cup VarConst}
     \cup {Inst("Sub", VarOp(v), <<p[1], p[2]>>) : p \in VarConst}
     \cup {Inst("Mul", VarOp(v), <<x, y>>) : x \in Vs, y \in AddrConstants}

RECURSIVE AddrDefSeqs(_)
AddrDefSeqs(k) ==
  IF k = 0 THEN {<< >>}
  ELSE {Append(s, d) : s \in AddrDefSeqs(k - 1), d \in AddrDefs(k + 2)}

\* The load or store at the end of the node.
AddrAccesses ==
  LET Addrs == {VarOp(i) : i \in 1..(NumAddrVars - 1)} \cup {ConstOp("i32", 4)}
  IN {Inst("Load", VarOp(NumAddrVars), <<a>>) : a \in Addrs}
     \cup {Inst("Store", NoOperand, <<VarOp(NumAddrVars), a>>) : a \in Addrs}

InitAddrOpt ==
  /\ InitDriverAtGenCode
  /\ \E multi \in {{1, 2}, 1..NumAddrVars} :
       Variables = [i \in 1..NumAddrVars |->
                      Var("i32", IF i \in multi THEN 0 ELSE 1)]
  /\ \E s \in AddrDefSeqs(MaxDefs), m \in AddrAccesses : Insts = Append(s, m)
  /\ IsEbpBasedFrame = FALSE
  /\ NeedsStackAlignment = FALSE

\* The address operand of a load or store.
AddrOf(I) == IF I.op = "Load" THEN I.srcs[1] ELSE I.srcs[2]

AddressOptimized(cur, insts) ==
  /\ Cur' = cur
  /\ Insts' = insts
  /\ LastCall' = [call |-> "doAddressOpt", inst |-> Insts[cur],
                  before |-> Insts]
  /\ UNCHANGED <<drvVars, Variables, Args, PhysicalRegisters, frameVars,
                 ComputedLiveRanges>>

DoAddressOptLoad ==
  \E cur \in 1..Len(Insts) :
    /\ Insts[cur].op = "Load" /\ ~Insts[cur].deleted
    /\ AddressOptimized(cur, doAddressOptLoad(Variables, Insts, cur))

DoAddressOptStore ==
  \E cur \in 1..Len(Insts) :
    /\ Insts[cur].op = "Store" /\ ~Insts[cur].deleted
    /\ AddressOptimized(cur, doAddressOptStore(Variables, Insts, cur))

NextAddrOpt == DoAddressOptLoad \/ DoAddressOptStore

SpecAddrOpt == InitAddrOpt /\ [][NextAddrOpt]_vars

(***************************************************************************)
(* SpecAddrValue: a node whose instructions form one chain of MaxChain     *)
(* address computations, each on the Variable that the one before defines, *)
(* followed by a load or a store of the last Variable.  Variables 1 and 2  *)
(* come from outside the node.  The constants include the largest int32_t, *)
(* so that the offset wraps.                                               *)
(***************************************************************************)
MaxChain == 3

\* Variable 2 + k is defined by the k-th instruction; the last Variable is
\* the one loaded or stored.
NumChainVars == MaxChain + 3

\* The Variable at the end of the chain: the address of the access.
ChainAddr == VarOp(NumChainVars - 1)

ChainOffsets == {ConstOp("i32", 4), ConstOp("i32", MaxInt32)}

ChainMultipliers == {ConstOp("i32", 2), ConstOp("i32", 8), ConstOp("i32", 3)}

\* The instructions that may define Variable v out of Variable v - 1.
ChainDefs(v) ==
  LET Prev == VarOp(v - 1)
      Outside == {VarOp(1), VarOp(2)}
  IN {Inst("Assign", VarOp(v), <<Prev>>)}
     \cup {Inst("Add", VarOp(v), <<Prev, x>>) : x \in Outside \cup ChainOffsets}
     \cup {Inst("Add", VarOp(v), <<x, Prev>>) : x \in Outside \cup ChainOffsets}
     \cup {Inst("Sub", VarOp(v), <<Prev, c>>) : c \in ChainOffsets}
     \cup {Inst("Mul", VarOp(v), <<Prev, c>>) : c \in ChainMultipliers}

RECURSIVE ChainDefSeqs(_)
ChainDefSeqs(k) ==
  IF k = 0 THEN {<< >>}
  ELSE {Append(s, d) : s \in ChainDefSeqs(k - 1), d \in ChainDefs(k + 2)}

\* The load or store of the last Variable of the chain.
ChainAccesses ==
  {Inst("Load", VarOp(NumChainVars), <<ChainAddr>>),
   Inst("Store", NoOperand, <<VarOp(NumChainVars), ChainAddr>>)}

InitAddrValue ==
  /\ InitDriverAtGenCode
  /\ optLevel = "O2"
  /\ Variables = [i \in 1..NumChainVars |->
                    Var("i32", IF i \in {1, 2} THEN 0 ELSE 1)]
  /\ \E s \in ChainDefSeqs(MaxChain), m \in ChainAccesses :
       Insts = Append(s, m)
  /\ IsEbpBasedFrame = FALSE
  /\ NeedsStackAlignment = FALSE

SpecAddrValue == InitAddrValue /\ [][NextAddrOpt]_vars

(***************************************************************************)
(* The values that an emitted sequence computes.  A 32-bit value is the    *)
(* set of the positions of its one bits; the machine state holds the value *)
(* of each Variable and the zero flag.  bsf and bsr on a zero source set   *)
(* the zero flag and leave an undefined value in their destination.        *)
(***************************************************************************)
WordWidth == 32

Bits == 0..(WordWidth - 1)

DoubleWidth == 2 * WordWidth

\* The 64-bit value of a pair of words, as the set of its one bits.
Join(v) == v.lo \cup {i + WordWidth : i \in v.hi}

Halves(w) ==
  [lo |-> w \cap Bits, hi |-> {i - WordWidth : i \in w \ Bits}]

\* The value of the non-negative integer n.
WordOf(n) == {i \in 0..(WordWidth - 2) : (n \div (2 ^ i)) % 2 = 1}

MinBit(w) == CHOOSE i \in w : \A j \in w : i <= j

MaxBit(w) == CHOOSE i \in w : \A j \in w : i >= j

XorWords(a, b) == (a \ b) \cup (b \ a)

\* a + b modulo 2^WordWidth.
AddWords(a, b) ==
  LET carry[i \in 0..WordWidth] ==
        IF i = 0 THEN FALSE
        ELSE IF (i - 1) \in a /\ (i - 1) \in b THEN TRUE
        ELSE IF (i - 1) \in a \/ (i - 1) \in b THEN carry[i - 1]
        ELSE FALSE
  IN {i \in Bits : ((i \in a) # (i \in b)) # carry[i]}

\* The value of a source operand: a Variable or an integer constant.
ValueOf(m, Operand) ==
  IF Operand.k = "Var" THEN m.regs[Operand.v] ELSE WordOf(Operand.val)

SetReg(m, Dest, w) == [m EXCEPT !.regs[Dest.v] = w]

\* The count of a shift: the low five bits of the count operand.
CountOf(w) ==
  (IF 0 \in w THEN 1 ELSE 0) + (IF 1 \in w THEN 2 ELSE 0)
    + (IF 2 \in w THEN 4 ELSE 0) + (IF 3 \in w THEN 8 ELSE 0)
    + (IF 4 \in w THEN 16 ELSE 0)

ShiftLeft(w, n) == {i + n : i \in w} \cap Bits

ShiftRight(w, n) == {i - n : i \in w} \cap Bits

\* The machine state after a shift of w by n into Dest: shld and shrd fill
\* with the bits of other, sar with the sign, shl and shr with zeros.  A
\* shift by zero changes neither the destination nor the flags.
Shifted(m, Dest, op, w, other, n) ==
  LET r == CASE op = "shl" -> ShiftLeft(w, n)
             [] op = "shr" -> ShiftRight(w, n)
             [] op = "sar" ->
                  ShiftRight(w, n)
                    \cup (IF (WordWidth - 1) \in w
                          THEN (WordWidth - n)..(WordWidth - 1) ELSE {})
             [] op = "shld" ->
                  ShiftLeft(w, n) \cup ShiftRight(other, WordWidth - n)
             [] op = "shrd" ->
                  ShiftRight(w, n) \cup ShiftLeft(other, WordWidth - n)
  IN IF n = 0 THEN m ELSE [SetReg(m, Dest, r) EXCEPT !.zf = (r = {})]

\* The machine state after the instruction I; undef is what bsf and bsr
\* leave in their destination when the source is zero.  After a branch that
\* is taken, the instructions up to the label are skipped.
Execute(undef, m, I) ==
  CASE m.skip -> IF I.op = "label" THEN [m EXCEPT !.skip = FALSE] ELSE m
    [] ~m.skip /\ I.op = "mov" -> SetReg(m, I.dest, ValueOf(m, I.srcs[1]))
    [] ~m.skip /\ I.op \in {"label", "FakeUse"} -> m
    [] ~m.skip /\ I.op = "br" -> [m EXCEPT !.skip = ((I.cond = "e") = m.zf)]
    [] ~m.skip /\ I.op \in {"shl", "shr", "sar"} ->
         Shifted(m, I.dest, I.op, ValueOf(m, I.srcs[1]), {},
                 CountOf(ValueOf(m, I.srcs[2])))
    [] ~m.skip /\ I.op \in {"shld", "shrd"} ->
         Shifted(m, I.dest, I.op, ValueOf(m, I.srcs[1]), ValueOf(m, I.srcs[2]),
                 CountOf(ValueOf(m, I.srcs[3])))
    [] ~m.skip /\ I.op \in {"bsf", "bsr"} ->
         LET w == ValueOf(m, I.srcs[1]) IN
         IF w = {} THEN [SetReg(m, I.dest, undef) EXCEPT !.zf = TRUE]
         ELSE [SetReg(m, I.dest,
                      WordOf(IF I.op = "bsf" THEN MinBit(w) ELSE MaxBit(w)))
                 EXCEPT !.zf = FALSE]
    [] ~m.skip /\ I.op = "cmov" ->
         IF (I.cond = "e") = m.zf THEN SetReg(m, I.dest, ValueOf(m, I.srcs[2]))
         ELSE m
    [] ~m.skip /\ I.op = "xor" ->
         LET w == XorWords(ValueOf(m, I.srcs[1]), ValueOf(m, I.srcs[2])) IN
         [SetReg(m, I.dest, w) EXCEPT !.zf = (w = {})]
    [] ~m.skip /\ I.op = "add" ->
         LET w == AddWords(ValueOf(m, I.srcs[1]), ValueOf(m, I.srcs[2])) IN
         [SetReg(m, I.dest, w) EXCEPT !.zf = (w = {})]
    [] ~m.skip /\ I.op = "test" ->
         [m EXCEPT !.zf = (ValueOf(m, I.srcs[1]) \cap ValueOf(m, I.srcs[2]) = {})]

ExecuteAll(undef, m, insts) ==
  FoldSeq(LAMBDA st, I : Execute(undef, st, I), m, insts, 1)

(***************************************************************************)
(* SpecCountZeros: one ctlz or cttz intrinsic call on an i32 or i64        *)
(* Variable or constant is lowered, and the emitted sequence is run on a   *)
(* value of the operand.                                                   *)
(***************************************************************************)
\* The values on which the sequences are run: zero, all ones, one bit, and
\* two bits of which one is the lowest or the highest.
TestWords ==
  {{}, Bits} \cup {{i} : i \in Bits} \cup {{0, i} : i \in Bits}
    \cup {{i, WordWidth - 1} : i \in Bits}

CountZerosVariables ==
  <<Var("i32", 1), Var("i32", 1), Var("i64", 1), Var("i64", 1)>>

CountZerosCalls ==
  {InstIntrinsicCall(ID, VarOp(1), <<a, ConstOp("i1", 0)>>) :
     ID \in {"Ctlz", "Cttz"},
     a \in {VarOp(2), ConstOp("i32", 0), ConstOp("i32", 12)}}
  \cup {InstIntrinsicCall(ID, VarOp(3), <<a, ConstOp("i1", 0)>>) :
          ID \in {"Ctlz", "Cttz"},
          a \in {VarOp(4), Const64(0, 0), Const64(0, 5), Const64(8, 0)}}

InitCountZeros ==
  /\ InitDriverAtGenCode
  /\ Variables = CountZerosVariables
  /\ \E call \in CountZerosCalls : Insts = <<call>>
  /\ IsEbpBasedFrame = FALSE
  /\ NeedsStackAlignment = FALSE

\* The values that the operand of the call may have: lo is the value of an
\* i32 operand or the low half of an i64 operand, hi the high half.
OperandValues(Operand) ==
  CASE Operand.k = "Var" ->
         {[lo |-> l, hi |-> h] : l \in TestWords, h \in TestWords}
    [] Operand.k = "Const" /\ Operand.ty = "i64" ->
         {[lo |-> WordOf(Operand.val[1]), hi |-> WordOf(Operand.val[2])]}
    [] OTHER -> {[lo |-> WordOf(Operand.val), hi |-> {}]}

\* The machine state in which every Variable of vs is undefined but the
\* operand, which has the value val.
MachineWith(vs, Operand, val, undef, zf) ==
  [regs |-> [i \in 1..Len(vs) |->
               IF Operand.k # "Var" THEN undef
               ELSE IF vs[Operand.v].ty = "i64"
               THEN (IF i = vs[Operand.v].lo THEN val.lo
                     ELSE IF i = vs[Operand.v].hi THEN val.hi ELSE undef)
               ELSE IF i = Operand.v THEN val.lo ELSE undef],
   zf |-> zf, skip |-> FALSE]

\* What the undefined values and the zero flag at entry may be.
Undefined ==
  {[undef |-> {}, zf |-> TRUE], [undef |-> Bits, zf |-> FALSE],
   [undef |-> {3}, zf |-> TRUE]}

LowerCountZeros ==
  /\ CanLower("IntrinsicCall")
  /\ LastCall = NoCall
  /\ \E c \in {lowerIntrinsicCall(NewContext, optLevel, Insts[Cur], << >>)} :
       /\ LoweredState(c)
       /\ \E val \in OperandValues(Insts[Cur].srcs[1]), u \in Undefined :
            \E m \in {ExecuteAll(u.undef,
                        MachineWith(c.vs, Insts[Cur].srcs[1], val, u.undef, u.zf),
                        c.insts)} :
              LastCall' =
                [call |-> "lowerCountZeros", cttz |-> Insts[Cur].ID = "Cttz",
                 ty |-> OperandType(c.vs, Insts[Cur].dest), val |-> val,
                 dest |-> IF c.vs[Insts[Cur].dest.v].ty = "i64"
                          THEN [lo |-> m.regs[c.vs[Insts[Cur].dest.v].lo],
                                hi |-> m.regs[c.vs[Insts[Cur].dest.v].hi]]
                          ELSE [lo |-> m.regs[Insts[Cur].dest.v], hi |-> {}]]
  /\ UNCHANGED <<IsEbpBasedFrame, NeedsStackAlignment>>

NextCountZeros == LowerCountZeros

SpecCountZeros == InitCountZeros /\ [][NextCountZeros]_vars

(***************************************************************************)
(* SpecShift: one i64 shift, by a constant or a Variable count, is lowered *)
(* and the emitted sequence is run on values of the operands.              *)
(***************************************************************************)
MaxShift == 2 * WordWidth - 1

ShiftVariables == <<Var("i64", 1), Var("i64", 1), Var("i64", 1)>>

\* The halves of the shifted value.
ShiftWords == {{}, Bits, {0}, {WordWidth - 1}, {0, WordWidth - 1}, {3, 17}}

Shifts ==
  {InstArithmetic(op, VarOp(1), VarOp(2), count) :
     op \in {"Shl", "Lshr", "Ashr"},
     count \in {VarOp(3)} \cup {Const64(n, 0) : n \in 0..MaxShift}}

InitShift ==
  /\ InitDriverAtGenCode
  /\ Variables = ShiftVariables
  /\ \E shift \in Shifts : Insts = <<shift>>
  /\ IsEbpBasedFrame = FALSE
  /\ NeedsStackAlignment = FALSE

\* The machine state m with the i64 operand holding val.
SetOperand(m, vs, Operand, val) ==
  IF Operand.k = "Var"
  THEN [m EXCEPT !.regs[vs[Operand.v].lo] = val.lo,
                 !.regs[vs[Operand.v].hi] = val.hi]
  ELSE m

\* The counts that the count operand may hold.
ShiftCounts(Operand) ==
  IF Operand.k = "Var" THEN 0..MaxShift ELSE {Operand.val[1]}

LowerArithmetic ==
  /\ CanLower("Arithmetic")
  /\ LastCall = NoCall
  /\ \E c \in {lowerArithmetic(NewContext, Insts[Cur])} :
       /\ LoweredState(c)
       /\ \E l \in ShiftWords, h \in ShiftWords,
             n \in ShiftCounts(Insts[Cur].srcs[2]), u \in Undefined :
            LET val == [lo |-> l, hi |-> h]
                dest == c.vs[Insts[Cur].dest.v]
            IN \E m \in {ExecuteAll(u.undef,
                           SetOperand(
                             MachineWith(c.vs, Insts[Cur].srcs[1], val,
                                         u.undef, u.zf),
                             c.vs, Insts[Cur].srcs[2],
                             [lo |-> WordOf(n), hi |-> {}]),
                           c.insts)} :
                 LastCall' =
                   [call |-> "lowerArithmetic", op |-> Insts[Cur].arith,
                    val |-> val, count |-> n,
                    dest |-> [lo |-> m.regs[dest.lo], hi |-> m.regs[dest.hi]]]
  /\ UNCHANGED <<IsEbpBasedFrame, NeedsStackAlignment>>

NextShift == LowerArithmetic

SpecShift == InitShift /\ [][NextShift]_vars

(***************************************************************************)
(* lowerAlloca, and lower(): the lowering method of the instruction at     *)
(* Cur, followed by postLower().                                           *)
(***************************************************************************)
InstAlloca(dest, sizeInBytes, alignInBytes) ==
  [op |-> "Alloca", dest |-> dest, srcs |-> <<sizeInBytes>>, deleted |-> FALSE,
   align |-> alignInBytes]

Max(a, b) == IF a >= b THEN a ELSE b

isPowerOf2(n) == \E k \in 0..(WordWidth - 2) : n = 2 ^ k

\* lowerAlloca, but for the two flags IsEbpBasedFrame and
\* NeedsStackAlignment, which it sets before anything else.  The assert
\* says that the alignment is a power of 2.
lowerAlloca(c, Instr) ==
  LET Alignment == Max(Max(Instr.align, 1), X86_STACK_ALIGNMENT_BYTES) IN
  Then(PhysicalRegister([c EXCEPT !.assertFailed =
                                    @ \/ ~isPowerOf2(Max(Instr.align, 1))],
                        Reg_esp), LAMBDA l1 :
  Then(legalize(l1, Instr.srcs[1], Legal_All, FALSE, NoRegister), LAMBDA l2 :
  Then(IF Alignment > X86_STACK_ALIGNMENT_BYTES
       THEN Emit(l2, Binop("and", l1.ret, ConstOp("i32", -Alignment)))
       ELSE l2, LAMBDA l3 :
  Then(IF l2.ret.k = "Const" /\ l2.ret.ty = "i32"
       THEN Emit(l3, Binop("sub", l1.ret,
                           ConstOp("i32", applyAlignment(l2.ret.val, Alignment))))
       ELSE Then(makeReg(l3, "i32", NoRegister), LAMBDA l4 :
              [l4 EXCEPT !.insts = @ \o
                 << Inst("mov", l4.ret, <<l2.ret>>),
                    Binop("add", l4.ret, ConstOp("i32", Alignment - 1)),
                    Binop("and", l4.ret, ConstOp("i32", -Alignment)),
                    Binop("sub", l1.ret, l4.ret) >>]), LAMBDA l5 :
       Emit(l5, Inst("mov", Instr.dest, <<l1.ret>>))))))

\* TargetLowering::lower: the lowering method of the kind of Instr.
lower(c, level, Instr, following) ==
  CASE Instr.op = "Alloca" -> lowerAlloca(c, Instr)
    [] Instr.op = "Arithmetic" -> lowerArithmetic(c, Instr)
    [] Instr.op = "Br" -> lowerBr(c, Instr)
    [] Instr.op = "Call" -> lowerCall(c, Instr)
    [] Instr.op = "Cast" -> lowerCast(c, Instr)
    [] Instr.op = "Icmp" -> lowerIcmp(c, Instr, following)
    [] Instr.op = "IntrinsicCall" -> lowerIntrinsicCall(c, level, Instr, following)
    [] Instr.op = "Phi" -> lowerPhi(c)
    [] Instr.op = "Switch" -> lowerSwitch(c, Instr)

LoweredOps ==
  {"Alloca", "Arithmetic", "Br", "Call", "Cast", "Icmp", "IntrinsicCall", "Phi",
   "Switch"}

\* lower() on the instruction at Cur; LastCall keeps what postLower was
\* given and where it released the registers.
Lower ==
  /\ \E op \in LoweredOps : CanLower(op)
  /\ \E c \in {lower(NewContext, optLevel, Insts[Cur], Following)} :
       LET ebpBased == IsEbpBasedFrame \/ Insts[Cur].op = "Alloca" IN
       /\ LoweredWith(c, ebpBased)
       /\ IsEbpBasedFrame' = ebpBased
       /\ NeedsStackAlignment' =
            (NeedsStackAlignment \/ Insts[Cur].op \in {"Alloca", "Call"})
       /\ \E P \in {postLower(optLevel, c.vs, InsertLowered(Insts, Cur, c), Cur,
                              ebpBased)} :
            LastCall' = [call |-> "postLower", from |-> Cur, before |-> c.vs,
                         freedAt |-> P.freedAt, ebpBased |-> ebpBased]

\* An assertion of the lowering method or of postLower fails.
LowerAssertFails ==
  /\ \E op \in LoweredOps : CanLower(op)
  /\ \E c \in {lower(NewContext, optLevel, Insts[Cur], Following)} :
       \/ c.assertFailed
       \/ postLower(optLevel, c.vs, InsertLowered(Insts, Cur, c), Cur,
                    IsEbpBasedFrame \/ Insts[Cur].op = "Alloca").assertFailed
  /\ pc' = -1
  /\ UNCHANGED <<optLevel, hasError, ran, doNops, funcVars, frameVars,
                 ComputedLiveRanges>>

(***************************************************************************)
(* SpecPostLower: at Om1, the instructions of a node are lowered one by    *)
(* one, with and without a frame pointer: calls, i64 shifts, ctlz and      *)
(* cttz, atomic intrinsics, compares, branches and switches.               *)
(***************************************************************************)
\* AtomicCmpxchg on an i64.
Cmpxchg64 ==
  InstIntrinsicCall("AtomicCmpxchg", VarOp(6),
                    <<VarOp(2), VarOp(7), Const64(1, 2),
                      Order(MemoryOrderSequentiallyConsistent),
                      Order(MemoryOrderSequentiallyConsistent)>>)

\* The nodes: their Variables and their instructions.
PostLowerNodes ==
  {[vs |-> CallVariables(prefix \o kinds, destTy),
    insts |-> <<CallInstruction(prefix \o kinds, destTy, TRUE)>>] :
     prefix \in XmmPrefixes, kinds \in SeqsUpTo(CallArgKinds, MaxCallArgs),
     destTy \in CallDestTypes}
  \cup {[vs |-> ShiftVariables, insts |-> <<shift>>] : shift \in Shifts}
  \cup {[vs |-> CountZerosVariables, insts |-> <<call>>] : call \in CountZerosCalls}
  \cup {[vs |-> NodeVariables, insts |-> <<first>> \o end] :
          first \in IntrinsicCalls \cup Icmps \cup {Cmpxchg64},
          end \in NodeEnds("Om1")}
  \cup {[vs |-> NodeVariables, insts |-> <<switch>>] : switch \in Switches}

InitPostLower ==
  /\ InitDriverAtGenCode
  /\ optLevel = "Om1"
  /\ \E node \in PostLowerNodes : Variables = node.vs /\ Insts = node.insts
  /\ IsEbpBasedFrame \in BOOLEAN
  /\ NeedsStackAlignment = FALSE

NextPostLower == Lower \/ LowerAssertFails

SpecPostLower == InitPostLower /\ [][NextPostLower]_vars

(***************************************************************************)
(* SpecAlloca: translateOm1 from genCode to genFrame on a function of one  *)
(* node that holds an alloca and another instruction, in either order, or  *)
(* an alloca and the switch that ends the node.                            *)
(* The function starts without a frame pointer.                            *)
(***************************************************************************)
Allocas ==
  {InstAlloca(VarOp(1), size, align) :
     size \in {ConstOp("i32", 8), VarOp(3)}, align \in {1, 2 * X86_STACK_ALIGNMENT_BYTES}}

InitAlloca ==
  /\ InitDriverAtGenCode
  /\ optLevel = "Om1"
  /\ Variables = NodeVariables
  /\ \E alloca \in Allocas :
       \/ \E other \in IntrinsicCalls \cup Icmps \cup {Cmpxchg64} :
            Insts \in {<<other, alloca>>, <<alloca, other>>}
       \/ \E switch \in Switches : Insts = <<alloca, switch>>
  /\ IsEbpBasedFrame = FALSE
  /\ NeedsStackAlignment = FALSE

\* Func->genCode() returns when the instructions of the node are lowered.
GenCode ==
  /\ ~Aborted
  /\ AtStmt = Call("genCode")
  /\ Cur > Len(Insts)
  /\ CallPass

NextAlloca ==
  \/ Lower
  \/ LowerAssertFails
  \/ GenCode
  \/ CheckHasError
  \/ AddProlog
  \/ AddPrologAssertFails

SpecAlloca == InitAlloca /\ [][NextAlloca]_vars

(***************************************************************************)
(* SpecAllocaSize: one alloca is lowered, of a size in a Variable or of a  *)
(* constant size near 0, 2^31 or 2^32, with an alignment of 0 or of a      *)
(* power of 2 up to 2^30.                                                  *)
(***************************************************************************)
MaxAllocaSize == 33

AllocaAlignments == {0} \cup {2 ^ k : k \in 0..(WordWidth - 2)}

\* The sizes, as the int32_t of their bits.
AllocaSizes ==
  (0..MaxAllocaSize)
    \cup {MaxInt32 - k : k \in 0..MaxAllocaSize}
    \cup {k - MaxInt32 - 1 : k \in 0..MaxAllocaSize}
    \cup {-1 - k : k \in 0..MaxAllocaSize}

InitAllocaSize ==
  /\ InitDriverAtGenCode
  /\ Variables = NodeVariables
  /\ \E size \in {ConstOp("i32", S) : S \in AllocaSizes} \cup {VarOp(3)},
        align \in AllocaAlignments :
       Insts = <<InstAlloca(VarOp(1), size, align)>>
  /\ IsEbpBasedFrame = FALSE
  /\ NeedsStackAlignment = FALSE

NextAllocaSize == Lower

SpecAllocaSize == InitAllocaSize /\ [][NextAllocaSize]_vars

(***************************************************************************)
(* SpecAbi: a caller lowers a call, and the function that it calls, whose  *)
(* arguments have the types of the operands of the call, goes through      *)
(* lowerArguments, lowering, register allocation and addProlog.  The state *)
(* is the caller's; LastCall keeps what addProlog left of the callee.      *)
(***************************************************************************)
InitAbi ==
  /\ InitDriverAtGenCode
  /\ \E prefix \in XmmPrefixes, kinds \in SeqsUpTo(CallArgKinds, MaxCallArgs) :
       /\ Variables = CallVariables(prefix \o kinds, "void")
       /\ Insts = <<CallInstruction(prefix \o kinds, "void", TRUE)>>
  /\ IsEbpBasedFrame = FALSE
  /\ NeedsStackAlignment = FALSE

\* The types of the operands of the call at the head of the node.
CalleeArgTypes ==
  [a \in 1..(Len(Insts[1].srcs) - 1) |-> OperandType(Variables, Insts[1].srcs[a + 1])]

\* The kinds that the argument a of the callee can have after its own
\* lowering and register allocation; a vector that lowerArguments gives a
\* home register is left to it.
CalleeKindsAt(a) ==
  LET tys == CalleeArgTypes
      vectorsBefore == Cardinality({b \in 1..(a - 1) : isVectorType(tys[b])})
  IN IF isVectorType(tys[a]) /\ vectorsBefore < X86_MAX_XMM_ARGS
     THEN {"v4f32"}
     ELSE {k \in ArgKinds \cup {"f64"} : ArgKindType(k) = tys[a]}

RECURSIVE CalleeKindsUpTo(_)
CalleeKindsUpTo(n) ==
  IF n = 0 THEN {<< >>}
  ELSE {Append(k, last) : k \in CalleeKindsUpTo(n - 1), last \in CalleeKindsAt(n)}

CalleeKinds == CalleeKindsUpTo(Len(CalleeArgTypes))

\* The locals of the callee: none, or a spilled one.
CalleeLocals == {<< >>, <<Var("f64", 1)>>}

\* lowerArguments, then addProlog, on the callee.
CalleeProlog ==
  /\ ~Aborted
  /\ LastCall = NoCall
  /\ Len(Insts) >= 1 /\ Insts[1].op = "Call" /\ Insts[1].deleted
  /\ \E kinds \in CalleeKinds, locals \in CalleeLocals, f \in FrameFlags :
       \E F \in {LoweredFunction(kinds, locals)} :
         \E P \in {addProlog(F.vs, NoPhysicalRegisters, F.args, FALSE,
                             f.ebp, f.align, f.twice, NumNodes)} :
           LastCall' = [call |-> "addProlog", vs |-> P.vs, args |-> F.args,
                        insts |-> P.insts, ebpBased |-> f.ebp]
  /\ UNCHANGED <<drvVars, Variables, Args, Insts, PhysicalRegisters, Cur,
                 frameVars, ComputedLiveRanges>>

NextAbi == LowerCall \/ CalleeProlog

SpecAbi == InitAbi /\ [][NextAbi]_vars

(***************************************************************************)
(* SpecSpill: addProlog on a function with Variables in callee-save        *)
(* registers, spilled Variables of one block or of several, at most one    *)
(* f64 argument on the stack, and at most one spill slot that the lowering *)
(* of a bitcast linked to a spilled Variable or to the argument.           *)
(***************************************************************************)
\* The callee-save registers in use: with the push of ebp, each number of
\* pushes of the prolog modulo the stack alignment.
UsedCalleeSaves == {{}, {Reg_ebx}, {Reg_ebx, Reg_esi}}

\* The type of the spill slot that a bitcast links to a Variable of type ty
\* (lowerCast, case Bitcast).
LinkedSpillType(ty) == IF ty = "i32" THEN "f32" ELSE ty

\* The Variables that a bitcast of the node 1 can have linked a spill slot
\* to, among the Variables vs without a register: its f64 source or its i32
\* or f64 destination, which the node 1 uses.
LinkTargets(vs) ==
  {i \in 1..Len(vs) :
     /\ ~hasReg(vs[i])
     /\ vs[i].node \in {0, 1}
     /\ vs[i].ty \in (IF vs[i].isArg THEN {"f64"} ELSE {"i32", "f64"})}

\* vs, with a spill slot of the node 1 linked to the Variable target.
WithLinkedSpill(vs, target) ==
  Append(vs, [Var(LinkedSpillType(vs[target].ty), 1) EXCEPT
                !.weight = "Zero", !.overlap = TRUE, !.pref = target])

\* Three single-block spilled Variables of the two first nodes, so that a
\* node can hold two of them and the other node one.
LocalTriples ==
  [1..3 -> [ty : {"i32", "f64"}, node : {1, 2}]]

InitSpill ==
  /\ InitDriverAtGenFrame
  /\ optLevel = "Om1"
  /\ \E kinds \in {<< >>, <<"f64">>}, used \in UsedCalleeSaves,
        locals \in SeqsUpTo(LocalKinds, MaxSpilled) \cup LocalTriples,
        f \in FrameFlags :
       LET F == LoweredFunction(kinds, << >>)
           vs == F.vs
                 \o [i \in 1..Cardinality(used) |->
                       [Var("i32", 0) EXCEPT !.regNum = RegSeq(used)[i],
                                             !.weight = "Inf"]]
                 \o [i \in 1..Len(locals) |-> Var(locals[i].ty, locals[i].node)]
       IN /\ Args = F.args
          /\ \/ Variables = vs
             \/ \E target \in LinkTargets(vs) : Variables = WithLinkedSpill(vs, target)
          /\ IsEbpBasedFrame = f.ebp
          /\ NeedsStackAlignment = f.align
          /\ CallsReturnsTwice = f.twice
  /\ Insts = << >>
  /\ PhysicalRegisters = NoPhysicalRegisters /\ Cur = 0 /\ LastCall = NoCall
  /\ SpillAreaSizeBytes = 0 /\ RegsUsed = {} /\ HasComputedFrame = FALSE

NextSpill == AddProlog

SpecSpill == InitSpill /\ [][NextSpill]_vars

(***************************************************************************)
(* addEpilog.                                                              *)
(***************************************************************************)
Reverse(seq) == [i \in 1..Len(seq) |-> seq[Len(seq) + 1 - i]]

\* The position of the last ret of the node; 0 when the node has none.
LastRet(insts) ==
  LET rets == {i \in 1..Len(insts) : insts[i].op = "ret"}
  IN IF rets = {} THEN 0 ELSE CHOOSE i \in rets : \A j \in rets : j <= i

\* The callee-save registers that the epilog pops, in the order of the pops:
\* descending register number, without ebp when it is the frame pointer.
PoppedRegs(regsUsed, ebpBased) ==
  Reverse(SelectSeq(PushedRegs(regsUsed),
                    LAMBDA r : ~(r = Reg_ebp /\ ebpBased)))

\* The physical registers that addEpilog asks for, in the order of its calls
\* of getPhysicalRegister.
EpilogRegs(regsUsed, ebpBased) ==
  <<Reg_esp>> \o (IF ebpBased THEN <<Reg_ebp>> ELSE << >>)
    \o PoppedRegs(regsUsed, ebpBased)

\* addEpilog on a node: the Variables, the physical registers and the
\* instructions of the node that it leaves.
addEpilog(vs, pr, insts, ebpBased, spillAreaSizeBytes, regsUsed) ==
  LET at == LastRet(insts) IN
  IF at = 0 THEN [vs |-> vs, pr |-> pr, insts |-> insts]
  ELSE CHOOSE E \in
    {LET Popped == PoppedRegs(regsUsed, ebpBased)
         restore ==
           IF ebpBased
           THEN <<Inst("mov", VarOp(fs.pr[Reg_esp]), <<VarOp(fs.pr[Reg_ebp])>>),
                  Inst("pop", VarOp(fs.pr[Reg_ebp]), << >>)>>
           ELSE IF spillAreaSizeBytes # 0
                THEN <<Binop("add", VarOp(fs.pr[Reg_esp]),
                             ConstOp("i32", spillAreaSizeBytes))>>
                ELSE << >>
         pops == [i \in 1..Len(Popped) |-> Inst("pop", VarOp(fs.pr[Popped[i]]), << >>)]
     IN [vs |-> fs.vs, pr |-> fs.pr,
         insts |-> SubSeq(insts, 1, at - 1) \o restore \o pops
                     \o SubSeq(insts, at, Len(insts))] :
       fs \in {getPhysicalRegisters(FuncState(vs, pr),
                                    EpilogRegs(regsUsed, ebpBased))}} : TRUE

(***************************************************************************)
(* SpecEpilog: genFrame on a function of one node: addProlog, then         *)
(* addEpilog on the node, which ends with a ret or with a branch.          *)
(***************************************************************************)
\* The lowered body of the node.
EpilogBodies ==
  {<<Inst("ret", NoOperand, << >>)>>,
   <<Inst("mov", VarOp(1), <<ConstOp("i32", 7)>>), Inst("ret", NoOperand, << >>)>>,
   <<Inst("mov", VarOp(1), <<ConstOp("i32", 7)>>), Inst("br", NoOperand, << >>)>>}

\* The Variables without a register.
EpilogLocals == {<<Var("i32", 1)>>, <<Var("i32", 1), Var("f64", 0)>>}

\* The register allocator of O2 excludes the frame pointer of an ebp-based
\* frame; postLower of Om1 excludes it only from the alloca on.
InitEpilog ==
  /\ InitDriverAtGenFrame
  /\ \E used \in SUBSET CalleeSaves, locals \in EpilogLocals, f \in FrameFlags,
        body \in EpilogBodies :
       /\ (f.ebp /\ optLevel = "O2") => Reg_ebp \notin used
       /\ Variables =
            locals \o [i \in 1..Cardinality(used) |->
                         [Var("i32", 0) EXCEPT !.regNum = RegSeq(used)[i],
                                               !.weight = "Inf"]]
       /\ Insts = body
       /\ IsEbpBasedFrame = f.ebp
       /\ NeedsStackAlignment = f.align
       /\ CallsReturnsTwice = f.twice
  /\ Args = << >>
  /\ PhysicalRegisters = NoPhysicalRegisters /\ Cur = 0 /\ LastCall = NoCall
  /\ SpillAreaSizeBytes = 0 /\ RegsUsed = {} /\ HasComputedFrame = FALSE

\* addEpilog(Node), after addProlog; LastCall keeps the node as addProlog
\* left it.
AddEpilog ==
  /\ ~Aborted /\ HasComputedFrame
  /\ AtStmt = Call("genFrame")
  /\ LastCall = NoCall
  /\ \E E \in {addEpilog(Variables, PhysicalRegisters, Insts, IsEbpBasedFrame,
                         SpillAreaSizeBytes, RegsUsed)} :
       /\ Variables' = E.vs
       /\ PhysicalRegisters' = E.pr
       /\ Insts' = E.insts
  /\ LastCall' = [call |-> "addEpilog", before |-> Insts]
  /\ UNCHANGED <<drvVars, Args, Cur, frameVars, ComputedLiveRanges>>

NextEpilog == AddProlog \/ AddPrologAssertFails \/ AddEpilog

SpecEpilog == InitEpilog /\ [][NextEpilog]_vars

(***************************************************************************)
(* SpecRMW: one atomic read-modify-write intrinsic call is lowered, and    *)
(* NumThreads threads run the emitted sequence on one memory location,     *)
(* one instruction at a time and in any order.  Each thread has its own    *)
(* values of the Variables, its own flags and its own position in the      *)
(* sequence; the location is a pair of 32-bit words.  A mov from the       *)
(* location reads one word; the locked cmpxchg and cmpxchg8b compare and   *)
(* write in one step.  The log holds, for each cmpxchg that succeeded, the *)
(* thread and the values of the location before and after it.              *)
(***************************************************************************)
NumThreads == 2

Threads == 1..NumThreads

\* a + b + cin modulo 2^WordWidth, and the carry out.
AddWithCarry(a, b, cin) ==
  LET carry[i \in 0..WordWidth] ==
        IF i = 0 THEN cin
        ELSE IF (i - 1) \in a /\ (i - 1) \in b THEN TRUE
        ELSE IF (i - 1) \in a \/ (i - 1) \in b THEN carry[i - 1]
        ELSE FALSE
  IN [w |-> {i \in Bits : ((i \in a) # (i \in b)) # carry[i]},
      cf |-> carry[WordWidth]]

\* The result and the carry flag of a two-operand arithmetic instruction.
BinopResult(op, a, b, cf) ==
  CASE op = "or" -> [w |-> a \cup b, cf |-> FALSE]
    [] op = "and" -> [w |-> a \cap b, cf |-> FALSE]
    [] op = "xor" -> [w |-> XorWords(a, b), cf |-> FALSE]
    [] op = "add" -> AddWithCarry(a, b, FALSE)
    [] op = "adc" -> AddWithCarry(a, b, cf)
    [] op = "sub" -> [AddWithCarry(a, Bits \ b, TRUE) EXCEPT !.cf = ~@]
    [] op = "sbb" -> [AddWithCarry(a, Bits \ b, ~cf) EXCEPT !.cf = ~@]

\* The word of the location that a 32-bit memory operand names.
HalfOf(Mem) == IF Mem.offset = 4 THEN "hi" ELSE "lo"

\* The value of a source operand of a thread: a word of the location, a
\* Variable of the thread or a constant.
SharedValueOf(mem, m, Operand) ==
  IF Operand.k = "Mem" THEN mem[HalfOf(Operand)] ELSE ValueOf(m, Operand)

LabelOf(code) == CHOOSE i \in 1..Len(code) : code[i].op = "label"

\* The location and the thread's state after the thread has run the
\* instruction I of code; wrote tells whether a cmpxchg succeeded.
ExecuteShared(mem, m, code, I) ==
  LET next == [m EXCEPT !.pc = @ + 1] IN
  CASE I.op = "mov" ->
         [mem |-> mem, wrote |-> FALSE,
          m |-> SetReg(next, I.dest, SharedValueOf(mem, m, I.srcs[1]))]
    [] I.op \in {"label", "FakeUse"} -> [mem |-> mem, wrote |-> FALSE, m |-> next]
    [] I.op \in {"or", "and", "xor", "add", "adc", "sub", "sbb"} ->
         LET r == BinopResult(I.op, ValueOf(m, I.srcs[1]),
                              SharedValueOf(mem, m, I.srcs[2]), m.cf)
         IN [mem |-> mem, wrote |-> FALSE,
             m |-> [SetReg(next, I.dest, r.w) EXCEPT !.zf = (r.w = {}), !.cf = r.cf]]
    [] I.op = "cmpxchg" ->
         \* srcs: the address, eax and the new value
         IF mem.lo = ValueOf(m, I.srcs[2])
         THEN [mem |-> [mem EXCEPT !.lo = ValueOf(m, I.srcs[3])], wrote |-> TRUE,
               m |-> [next EXCEPT !.zf = TRUE]]
         ELSE [mem |-> mem, wrote |-> FALSE,
               m |-> [SetReg(next, I.srcs[2], mem.lo) EXCEPT !.zf = FALSE]]
    [] I.op = "cmpxchg8b" ->
         \* srcs: the address, edx, eax, ecx and ebx
         IF mem.hi = ValueOf(m, I.srcs[2]) /\ mem.lo = ValueOf(m, I.srcs[3])
         THEN [mem |-> [lo |-> ValueOf(m, I.srcs[5]), hi |-> ValueOf(m, I.srcs[4])],
               wrote |-> TRUE, m |-> [next EXCEPT !.zf = TRUE]]
         ELSE [mem |-> mem, wrote |-> FALSE,
               m |-> [SetReg(SetReg(next, I.srcs[2], mem.hi), I.srcs[3], mem.lo)
                        EXCEPT !.zf = FALSE]]
    [] I.op = "br" ->
         [mem |-> mem, wrote |-> FALSE,
          m |-> IF (I.cond = "e") = m.zf THEN [m EXCEPT !.pc = LabelOf(code)]
                ELSE next]

\* The values of the location at the start.
RMWMemories == {[lo |-> Bits, hi |-> {}]}

\* The values of the operand of the threads: the first thread has one
\* value and the others another.  The value of an i32 operand has no high
\* word, and a constant is the same in every thread.
RMWValues(Operand, Ty) ==
  IF Operand.k = "Var"
  THEN {[t \in Threads |->
           IF t = 1 THEN [lo |-> {0}, hi |-> {}]
           ELSE [lo |-> Bits, hi |-> IF Ty = "i64" THEN {0} ELSE {}]]}
  ELSE {[t \in Threads |-> v] : v \in OperandValues(Operand)}

\* The undefined values and the zero flag of a thread at the start.
RMWUndefined == {[undef |-> {3}, zf |-> TRUE]}

\* The calls: or, and and xor on i32, every operation on i64; the operand
\* is a Variable or a constant.
RMWCalls ==
  {InstIntrinsicCall("AtomicRMW", VarOp(1),
                     <<ConstOp("i32", operation), VarOp(2), v,
                       Order(MemoryOrderSequentiallyConsistent)>>) :
     operation \in {3, 4, 5}, v \in {VarOp(3), ConstOp("i32", 6)}}
  \cup {InstIntrinsicCall("AtomicRMW", VarOp(6),
                          <<ConstOp("i32", operation), VarOp(2), v,
                            Order(MemoryOrderSequentiallyConsistent)>>) :
          operation \in 1..Len(AtomicRMWOperations),
          v \in {VarOp(7), Const64(1, 2)}}

InitRMW ==
  /\ InitDriverAtGenCode
  /\ optLevel = "O2"
  /\ Variables = NodeVariables
  /\ \E call \in RMWCalls : Insts = <<call>>
  /\ IsEbpBasedFrame = FALSE
  /\ NeedsStackAlignment = FALSE

\* The lowering of the call; every thread starts before the first emitted
\* instruction, with its value of the operand.
LowerRMW ==
  /\ CanLower("IntrinsicCall")
  /\ LastCall = NoCall
  /\ \E c \in {lowerIntrinsicCall(NewContext, optLevel, Insts[Cur], << >>)} :
       /\ LoweredState(c)
       /\ LET Operand == Insts[Cur].srcs[3]
              Ty == OperandType(c.vs, Insts[Cur].dest)
          IN \E mem \in RMWMemories,
                vals \in RMWValues(Operand, Ty), u \in RMWUndefined :
               LastCall' =
                 [call |-> "lowerAtomicRMW",
                  operation |-> AtomicRMWOperations[Insts[Cur].srcs[1].val],
                  ty |-> Ty, code |-> c.insts, start |-> mem, mem |-> mem,
                  vals |-> vals,
                  dest |-> IF Ty = "i64"
                           THEN [lo |-> c.vs[Insts[Cur].dest.v].lo,
                                 hi |-> c.vs[Insts[Cur].dest.v].hi]
                           ELSE [lo |-> Insts[Cur].dest.v, hi |-> 0],
                  threads |->
                    [t \in Threads |->
                       MachineWith(c.vs, Operand, vals[t], u.undef, u.zf)
                         @@ [pc |-> 1, cf |-> ~u.zf, torn |-> FALSE]],
                  log |-> << >>]
  /\ UNCHANGED <<IsEbpBasedFrame, NeedsStackAlignment>>

\* The values that the location has held.
Held(L) == {L.start} \cup {L.log[k].new : k \in 1..Len(L.log)}

\* The two words that a thread has loaded from the location, once the
\* second mov of the i64 sequence has run.
LoadedPair(code, m) ==
  [lo |-> m.regs[code[1].dest.v], hi |-> m.regs[code[2].dest.v]]

\* One thread runs its next instruction.  torn records that the two loads
\* of the i64 sequence gave a pair of words that the location never held.
ThreadStep ==
  /\ LastCall.call = "lowerAtomicRMW"
  /\ \E t \in Threads :
       /\ LastCall.threads[t].pc \in 1..Len(LastCall.code)
       /\ LET m == LastCall.threads[t]
              I == LastCall.code[m.pc]
          IN \E r \in {ExecuteShared(LastCall.mem, m, LastCall.code, I)} :
               LastCall' =
                 [LastCall EXCEPT
                    !.mem = r.mem,
                    !.threads[t] =
                      [r.m EXCEPT
                         !.torn = \/ @
                                  \/ /\ LastCall.ty = "i64"
                                     /\ m.pc = 2
                                     /\ LoadedPair(LastCall.code, r.m)
                                          \notin Held(LastCall)],
                    !.log = IF r.wrote
                            THEN Append(@, [thread |-> t, old |-> LastCall.mem,
                                            new |-> r.mem])
                            ELSE @]
  /\ UNCHANGED <<drvVars, frameVars, ComputedLiveRanges, Variables, Args, Insts,
                 PhysicalRegisters, Cur>>

NextRMW == LowerRMW \/ ThreadStep

SpecRMW == InitRMW /\ [][NextRMW]_vars

(***************************************************************************)
(* SpecCmpBr: genCode on a node that starts with an atomic cmpxchg, goes   *)
(* on with up to MaxPhiAssigns assigns and ends with an icmp, a branch,    *)
(* both or neither.                                                        *)
(***************************************************************************)
MaxPhiAssigns == 2

\* The assigns between the cmpxchg and the compare: to the cmpxchg's Dest,
\* to another i32 Variable, from a constant, and to an i64 Variable.
PhiAssignChoices ==
  {Inst("Assign", VarOp(1), <<VarOp(4)>>), Inst("Assign", VarOp(4), <<VarOp(1)>>),
   Inst("Assign", VarOp(4), <<ConstOp("i32", 7)>>),
   Inst("Assign", VarOp(6), <<VarOp(7)>>)}

\* The compares: of Dest and Expected in both orders, of other operands,
\* and with another condition.
CmpBrIcmps ==
  {InstIcmp(cond, VarOp(5), ops[1], ops[2]) :
     cond \in {"Eq", "Slt"},
     ops \in {<<VarOp(1), VarOp(3)>>, <<VarOp(3), VarOp(1)>>,
              <<VarOp(1), VarOp(4)>>}}

\* The branches: on the icmp's Dest at its last use or not, on another
\* condition, and unconditional.
CmpBrBranches(level) ==
  {InstBr(<<VarOp(cond)>>, <<"true", "false">>, u) :
     cond \in {5, 3}, u \in IF level = "O2" THEN {{}, {5}} ELSE {{}}}
  \cup {InstBr(<< >>, <<"target">>, {})}

\* The ends of the node.
CmpBrEnds(level) ==
  {<<icmp, br>> : icmp \in CmpBrIcmps, br \in CmpBrBranches(level)}
  \cup {<<br>> : br \in CmpBrBranches(level)}
  \cup {<<icmp>> : icmp \in CmpBrIcmps}
  \cup {<<icmp, Inst("Assign", VarOp(4), <<VarOp(3)>>), br>> :
          icmp \in CmpBrIcmps, br \in CmpBrBranches(level)}
  \cup {<< >>}

CmpBrCalls ==
  {InstIntrinsicCall("AtomicCmpxchg", VarOp(1),
                     <<VarOp(2), VarOp(3), VarOp(4), Order(s), Order(f)>>) :
     s \in MemoryOrders, f \in {MemoryOrderSequentiallyConsistent}}

InitCmpBr ==
  /\ InitDriverAtGenCode
  /\ Variables = NodeVariables
  /\ \E call \in CmpBrCalls, assigns \in SeqsUpTo(PhiAssignChoices, MaxPhiAssigns),
        end \in CmpBrEnds(optLevel) :
       Insts = <<call>> \o assigns \o end
  /\ IsEbpBasedFrame = FALSE
  /\ NeedsStackAlignment = FALSE

LowerAssign ==
  /\ CanLower("Assign")
  /\ \E c \in {lowerAssign(NewContext, Insts[Cur].dest, Insts[Cur].srcs[1])} :
       Lowered(c)
  /\ UNCHANGED <<IsEbpBasedFrame, NeedsStackAlignment>>

NextCmpBr == LowerIntrinsicCall \/ LowerAssign \/ LowerIcmp \/ LowerBr

SpecCmpBr == InitCmpBr /\ [][NextCmpBr]_vars

(***************************************************************************)
(* SpecLoad: genCode on a node that starts with a load and goes on with an *)
(* arithmetic instruction, an icmp or a branch.  Liveness, which says      *)
(* where a live range ends, has run at O2 only.                            *)
(***************************************************************************)
\* The arithmetic instructions on i32 after the load of the Variable 1 and
\* on i64 after the load of the Variable 6.
LoadArithmetics(level) ==
  LET lastUses(d) == IF level = "O2" THEN {{}, {d}, {d, 3}} ELSE {{}} IN
  {InstArithmetic(op, VarOp(4), ops[1], ops[2]) @@ [lastUses |-> u] :
     op \in {"Add", "Sub", "Mul", "Xor", "Shl"},
     ops \in {<<VarOp(3), VarOp(1)>>, <<VarOp(1), VarOp(3)>>,
              <<VarOp(1), VarOp(1)>>, <<VarOp(1), ConstOp("i32", 7)>>,
              <<ConstOp("i32", 7), VarOp(1)>>, <<VarOp(3), VarOp(4)>>},
     u \in lastUses(1)}
  \cup {InstArithmetic(op, VarOp(7), ops[1], ops[2]) @@ [lastUses |-> u] :
          op \in {"Add", "Sub"},
          ops \in {<<VarOp(7), VarOp(6)>>, <<VarOp(6), VarOp(7)>>,
                   <<VarOp(6), VarOp(6)>>, <<Const64(1, 2), VarOp(6)>>},
          u \in lastUses(6)}

LoadOf(Arith) ==
  IF Arith.dest = VarOp(7) THEN Inst("Load", VarOp(6), <<VarOp(2)>>)
  ELSE Inst("Load", VarOp(1), <<VarOp(2)>>)

InitLoad ==
  /\ InitDriverAtGenCode
  /\ Variables = NodeVariables
  /\ \/ \E arith \in LoadArithmetics(optLevel) : Insts = <<LoadOf(arith), arith>>
     \/ \E end \in NodeEnds(optLevel) :
          Insts = <<Inst("Load", VarOp(1), <<VarOp(2)>>)>> \o end
     \/ Insts = <<Inst("Load", VarOp(1), <<VarOp(2)>>)>>
  /\ IsEbpBasedFrame = FALSE
  /\ NeedsStackAlignment = FALSE

LowerLoad ==
  /\ CanLower("Load")
  /\ \E c \in {lowerLoad(NewContext, Insts[Cur].dest, Insts[Cur].srcs[1],
                         Following)} :
       Lowered(c)
  /\ UNCHANGED <<IsEbpBasedFrame, NeedsStackAlignment>>

\* lowerArithmetic on an instruction that was not fused with a load.
LowerUnfused ==
  /\ CanLower("Arithmetic")
  /\ \E c \in {lowerArithmetic(NewContext, Insts[Cur])} : Lowered(c)
  /\ UNCHANGED <<IsEbpBasedFrame, NeedsStackAlignment>>

NextLoad == LowerLoad \/ LowerUnfused \/ LowerIcmp \/ LowerBr

SpecLoad == InitLoad /\ [][NextLoad]_vars

(***************************************************************************)
(* SpecMul: one i64 multiplication of Variables or constants is lowered    *)
(* and the emitted sequence is run on values of the operands, with the     *)
(* Variables in the registers that postLower() has given them: Variables   *)
(* in one register hold one value.                                         *)
(***************************************************************************)
\* A number is the sequence of its limbs of LimbWidth bits, lowest first.
LimbWidth == WordWidth \div 4

LimbRange == 2 ^ LimbWidth

\* The number that the LimbWidth bits of w from position base on stand for.
RECURSIVE LimbOf(_, _, _)
LimbOf(w, base, i) ==
  IF i = LimbWidth THEN 0
  ELSE (IF (base + i) \in w THEN 2 ^ i ELSE 0) + LimbOf(w, base, i + 1)

Limbs(w, n) == [k \in 1..n |-> LimbOf(w, (k - 1) * LimbWidth, 0)]

\* The sum of the products x[i] * y[k + 1 - i] for i from i to k.
RECURSIVE ColumnSum(_, _, _, _)
ColumnSum(x, y, k, i) ==
  IF i > k THEN 0 ELSE x[i] * y[k + 1 - i] + ColumnSum(x, y, k, i + 1)

\* Column k of the product of x and y, with the carry out of the columns
\* below it.
RECURSIVE Carried(_, _, _)
Carried(x, y, k) ==
  ColumnSum(x, y, k, 1)
    + (IF k = 1 THEN 0 ELSE Carried(x, y, k - 1) \div LimbRange)

\* a * b modulo 2^width, on sets of bit positions.
Times(a, b, width) ==
  LET n == width \div LimbWidth IN
  Then([k \in 1..n |-> Carried(Limbs(a, n), Limbs(b, n), k) % LimbRange],
       LAMBDA P :
         {i \in 0..(width - 1) :
            (P[(i \div LimbWidth) + 1] \div (2 ^ (i % LimbWidth))) % 2 = 1})

\* The machine state with w in the location of Dest: in every Variable of
\* Dest's register, or in Dest alone when it has none.
SetPhysical(vs, m, RegNum, w) ==
  [m EXCEPT !.regs = [v \in DOMAIN @ |->
                        IF vs[v].regNum = RegNum THEN w ELSE @[v]]]

SetLocation(vs, m, Dest, w) ==
  IF hasReg(vs[Dest.v]) THEN SetPhysical(vs, m, vs[Dest.v].regNum, w)
  ELSE SetReg(m, Dest, w)

\* The machine state after the instruction I of the sequence for Mul: imul
\* leaves the low 32 bits of the product, mul leaves the low 32 bits in its
\* destination (eax) and the high 32 bits in edx.
ExecuteMul(vs, m, I) ==
  CASE I.op = "mov" -> SetLocation(vs, m, I.dest, ValueOf(m, I.srcs[1]))
    [] I.op = "FakeDef" -> m
    [] I.op = "add" ->
         SetLocation(vs, m, I.dest,
                     AddWords(ValueOf(m, I.srcs[1]), ValueOf(m, I.srcs[2])))
    [] I.op = "imul" ->
         SetLocation(vs, m, I.dest,
                     Times(ValueOf(m, I.srcs[1]), ValueOf(m, I.srcs[2]),
                           WordWidth))
    [] I.op = "mul" ->
         Then(Halves(Times(ValueOf(m, I.srcs[1]), ValueOf(m, I.srcs[2]),
                           DoubleWidth)),
              LAMBDA P : SetPhysical(vs, SetLocation(vs, m, I.dest, P.lo),
                                     Reg_edx, P.hi))

\* The halves of the operands.
MulWords == {{}, Bits, {0, WordWidth - 1}, {3, 17}}

Muls ==
  {InstArithmetic("Mul", VarOp(1), a, b) :
     a \in {VarOp(2), VarOp(1), Const64(3, 1)},
     b \in {VarOp(3), VarOp(2), Const64(5, MaxInt32)}}

InitMul ==
  /\ InitDriverAtGenCode
  /\ Variables = ShiftVariables
  /\ \E mul \in Muls : Insts = <<mul>>
  /\ IsEbpBasedFrame = FALSE
  /\ NeedsStackAlignment = FALSE

\* The values that an operand may hold.
MulValues(Operand) ==
  IF Operand.k = "Var"
  THEN {[lo |-> l, hi |-> h] : l \in MulWords, h \in MulWords}
  ELSE {[lo |-> WordOf(Operand.val[1]), hi |-> WordOf(Operand.val[2])]}

LowerMul ==
  /\ CanLower("Arithmetic")
  /\ LastCall = NoCall
  /\ \E c \in {lowerArithmetic(NewContext, Insts[Cur])} :
       /\ LoweredState(c)
       /\ \E a \in MulValues(Insts[Cur].srcs[1]),
             b \in MulValues(Insts[Cur].srcs[2]), u \in Undefined :
            LET dest == c.vs[Insts[Cur].dest.v] IN
            /\ (Insts[Cur].srcs[1] = Insts[Cur].srcs[2]) => a = b
            /\ \E m \in {FoldSeq(LAMBDA st, I : ExecuteMul(Variables', st, I),
                           SetOperand(
                             MachineWith(c.vs, Insts[Cur].srcs[1], a,
                                         u.undef, u.zf),
                             c.vs, Insts[Cur].srcs[2], b),
                           c.insts, 1)} :
                 LastCall' =
                   [call |-> "lowerArithmetic", op |-> "Mul", a |-> a, b |-> b,
                    dest |-> [lo |-> m.regs[dest.lo], hi |-> m.regs[dest.hi]]]
  /\ UNCHANGED <<IsEbpBasedFrame, NeedsStackAlignment>>

NextMul == LowerMul

SpecMul == InitMul /\ [][NextMul]_vars

(***************************************************************************)
(* Claims about the drivers.                                               *)
(***************************************************************************)
Range(s) == {s[i] : i \in 1..Len(s)}

IndexOf(s, x) == CHOOSE i \in 1..Len(s) : s[i] = x

\* The passes of `order` have run in the order of `order`: a pass of the list
\* is only invoked once every pass listed before it has been invoked, and
\* never before a pass listed before it.
RunsInOrder(order) ==
  /\ \A i, j \in 1..Len(order) :
       (i < j /\ order[j] \in Range(ran)) => order[i] \in Range(ran)
  /\ \A a, b \in 1..Len(ran) :
       (a < b /\ ran[a] \in Range(order) /\ ran[b] \in Range(order))
          => IndexOf(order, ran[a]) <= IndexOf(order, ran[b])

\* C4: once a pass has set the function's error state, the driver invokes no
\* further pass: in every step taken from a state with the error set, the
\* list of invoked passes stays as it is.
C4_NoPassAfterError == [][hasError => ran' = ran]_vars

\* C4 witness: genCode set the error and the driver returned right after it.
C4_Witness ==
  /\ hasError /\ Returned
  /\ Len(ran) > 0 /\ ran[Len(ran)] = "genCode"

NumPushes(insts) == Cardinality({i \in 1..Len(insts) : insts[i].op = "push"})

\* The bytes that the "sub esp, N" instructions of insts take from esp.
RECURSIVE SubEspBytes(_)
SubEspBytes(insts) ==
  IF insts = << >> THEN 0
  ELSE (IF Head(insts).op = "sub" /\ Head(insts).dest.k = "Var"
           /\ Variables[Head(insts).dest.v].regNum = Reg_esp
        THEN Head(insts).srcs[2].val ELSE 0) + SubEspBytes(Tail(insts))

\* C1: when NeedsStackAlignment is set, after addProlog the return address,
\* the pushed preserved registers (ebp included in frame-pointer mode) and
\* SpillAreaSizeBytes add up to a multiple of 16, and the prolog takes exactly
\* SpillAreaSizeBytes from esp after its pushes.
C1_PrologAlignsEsp ==
  (HasComputedFrame /\ NeedsStackAlignment) =>
    /\ (X86_RET_IP_SIZE_BYTES + 4 * NumPushes(Insts) + SpillAreaSizeBytes)
         % X86_STACK_ALIGNMENT_BYTES = 0
    /\ SubEspBytes(Insts) = SpillAreaSizeBytes

C1_Witness ==
  /\ HasComputedFrame /\ NeedsStackAlignment /\ IsEbpBasedFrame
  /\ NumPushes(Insts) = 3
  /\ \E i \in 1..Len(Variables) : Variables[i].hasOffset /\ Variables[i].ty = "f64"
  /\ SpillAreaSizeBytes = 16

\* The argument at position a of Args is passed in an xmm register: it is
\* one of the first X86_MAX_XMM_ARGS vectors.
PassedInXmm(a) ==
  /\ isVectorType(Variables[Args[a]].ty)
  /\ Cardinality({b \in 1..(a - 1) : isVectorType(Variables[Args[b]].ty)})
       < X86_MAX_XMM_ARGS

\* The Variable i is an argument passed on the stack, or a half of one.
IsStackArgument(i) ==
  \E a \in 1..Len(Args) :
    /\ ~PassedInXmm(a)
    /\ i \in {Args[a], Variables[Args[a]].lo, Variables[Args[a]].hi}

\* C6 as stated: after addProlog every Variable has a register or a stack
\* offset, and none has both.
C6_RegisterXorOffset ==
  HasComputedFrame =>
    \A i \in 1..Len(Variables) : hasReg(Variables[i]) # Variables[i].hasOffset

\* C6: after addProlog a Variable has both a register and a stack offset only
\* if it is an argument passed on the stack; it has neither only if it is
\* unreferenced (its live range is empty) or an i64 argument split into its
\* halves; every other Variable has exactly one of the two.
C6_RegisterOrOffsetButForArguments ==
  HasComputedFrame =>
    \A i \in 1..Len(Variables) :
      LET v == Variables[i] IN
      /\ (hasReg(v) /\ v.hasOffset) => IsStackArgument(i)
      /\ (IsStackArgument(i) /\ hasReg(v)) => v.hasOffset
      /\ (~hasReg(v) /\ ~v.hasOffset) =>
            \/ ComputedLiveRanges /\ v.liveEmpty /\ ~v.isArg
            \/ v.isArg /\ v.ty = "i64" /\ v.lo # 0 /\ v.hi # 0
                 /\ Variables[v.lo].hasOffset /\ Variables[v.hi].hasOffset

C6_Witness ==
  /\ HasComputedFrame
  /\ \E i \in 1..Len(Variables) :
       /\ hasReg(Variables[i]) /\ Variables[i].hasOffset
       /\ \E k \in 1..Len(Insts) :
            Insts[k].op = "mov" /\ Insts[k].dest = VarOp(i)
  /\ \E i \in 1..Len(Variables) : ~hasReg(Variables[i]) /\ ~Variables[i].hasOffset
  /\ \E i \in 1..Len(Variables) :
       Variables[i].weight = "Zero" /\ Variables[i].hasOffset

(***************************************************************************)
(* Claims about lowerCall (SpecCall).                                      *)
(***************************************************************************)
\* The call of the node has been lowered.
CallLowered == Len(Insts) >= 1 /\ Insts[1].op = "Call" /\ Insts[1].deleted

\* The instruction kills every scratch register, and nothing else.
KillsAllScratch(inst) ==
  /\ inst.op = "FakeKill"
  /\ \A j \in 1..Len(inst.srcs) : inst.srcs[j].k = "Var"
  /\ {Variables[inst.srcs[j].v].regNum : j \in 1..Len(inst.srcs)} = ScratchRegs

EmittedCalls == {i \in 1..Len(Insts) : Insts[i].op = "call"}

\* C2 as stated: a FakeKill of all the scratch registers is the instruction
\* right after every emitted call.
C2_KillImmediatelyFollows ==
  \A i \in EmittedCalls :
    i < Len(Insts) /\ KillsAllScratch(Insts[i + 1])

\* The FakeKill after the call at i.
KillAfter(i) == CHOOSE k \in (i + 1)..Len(Insts) :
                  /\ Insts[k].op = "FakeKill"
                  /\ \A n \in (i + 1)..(k - 1) : Insts[n].op # "FakeKill"

AdjustsStack == \E i \in 1..Len(Insts) : Insts[i].op = "adjuststack"

\* C2: a FakeKill of all the scratch registers follows every emitted call;
\* between the two stand only the FakeDef of edx, exactly when the call
\* returns an i64, and then the add that gives the parameter area back to
\* esp, exactly when there is a parameter area.
C2_KillFollowsAfterFakeDefAndAdd ==
  \A i \in EmittedCalls :
    /\ \E k \in (i + 1)..Len(Insts) : Insts[k].op = "FakeKill"
    /\ LET k == KillAfter(i)
           between == [n \in 1..(k - i - 1) |-> Insts[i + n]]
           ops == [n \in 1..Len(between) |-> between[n].op]
           returnsI64 == Insts[1].dest # NoOperand
                           /\ Variables[Insts[1].dest.v].ty = "i64"
       IN /\ KillsAllScratch(Insts[k])
          /\ ops = (IF returnsI64 THEN <<"FakeDef">> ELSE << >>)
                     \o (IF AdjustsStack THEN <<"add">> ELSE << >>)
          /\ \A n \in 1..Len(between) :
               Variables[between[n].dest.v].regNum =
                 (IF ops[n] = "FakeDef" THEN Reg_edx ELSE Reg_esp)

\* A lowered call that returns an i64 and has stack arguments: the FakeDef
\* and the add stand between the call and its FakeKill.
C2_Witness ==
  /\ CallLowered
  /\ \E i \in EmittedCalls :
       /\ i + 3 <= Len(Insts)
       /\ Insts[i + 1].op = "FakeDef"
       /\ Insts[i + 2].op = "add"
       /\ KillsAllScratch(Insts[i + 3])

\* The arguments of the lowered call.
NumCallArgs == Len(Insts[1].srcs) - 1

CallArg(a) == Insts[1].srcs[a + 1]

CallArgType(a) == OperandType(Variables, CallArg(a))

VectorsBefore(a) == Cardinality({b \in 1..(a - 1) : isVectorType(CallArgType(b))})

CallArgInXmm(a) == isVectorType(CallArgType(a)) /\ VectorsBefore(a) < X86_MAX_XMM_ARGS

StackCallArgs == {a \in 1..NumCallArgs : ~CallArgInXmm(a)}

\* The emitted stores, in the order of emission.
StoreIndices == {i \in 1..Len(Insts) : Insts[i].op \in {"store", "storep"}}

NthStore(n) == CHOOSE i \in StoreIndices :
                 Cardinality({j \in StoreIndices : j < i}) = n - 1

\* The first store of the stack argument a: an i64 takes two stores, the
\* high half first.
FirstStoreOf(a) ==
  1 + Cardinality({b \in StackCallArgs : b < a})
    + Cardinality({b \in StackCallArgs : b < a /\ CallArgType(b) = "i64"})

NumStoresExpected ==
  Cardinality(StackCallArgs)
    + Cardinality({b \in StackCallArgs : CallArgType(b) = "i64"})

\* The operand that the store at i writes: the source of the copy that
\* loaded it into a register, when there is one.
StoredOperand(i) ==
  LET v == Insts[i].srcs[1]
      copies == {j \in 2..(i - 1) : Insts[j].op \in {"mov", "movp"} /\ Insts[j].dest = v}
  IN IF copies = {} THEN v ELSE Insts[CHOOSE j \in copies : TRUE].srcs[1]

\* The location of the stack argument a: the lowest address it is stored to.
ArgLocation(a) ==
  LET n == FirstStoreOf(a) IN
  Insts[NthStore(IF CallArgType(a) = "i64" THEN n + 1 ELSE n)].srcs[2].offset

\* The stack argument a is stored to esp + ArgLocation(a).
StoredAtLocation(a) ==
  LET n == FirstStoreOf(a)
      first == Insts[NthStore(n)]
      onEsp(inst) == /\ inst.srcs[2].k = "Mem"
                     /\ Variables[inst.srcs[2].base].regNum = Reg_esp
  IN IF CallArgType(a) = "i64"
     THEN LET second == Insts[NthStore(n + 1)] IN
          /\ onEsp(first) /\ onEsp(second)
          /\ first.srcs[2].offset = second.srcs[2].offset + 4
          /\ StoredOperand(NthStore(n)) = VarOp(Variables[CallArg(a).v].hi)
          /\ StoredOperand(NthStore(n + 1)) = VarOp(Variables[CallArg(a).v].lo)
     ELSE /\ onEsp(first)
          /\ first.op = (IF isVectorType(CallArgType(a)) THEN "storep" ELSE "store")
          /\ StoredOperand(NthStore(n)) = CallArg(a)

\* The vector argument a is copied to its xmm register, which is then used.
CopiedToXmm(a) ==
  \E i \in 2..(Len(Insts) - 1) :
    /\ Insts[i].op = "movp"
    /\ Insts[i].srcs[1] = CallArg(a)
    /\ Variables[Insts[i].dest.v].regNum = Reg_xmm0 + VectorsBefore(a)
    /\ Insts[i + 1].op = "FakeUse"
    /\ Insts[i + 1].srcs = <<Insts[i].dest>>
    /\ \E k \in EmittedCalls : i < k

ParameterArea ==
  IF AdjustsStack
  THEN Insts[CHOOSE i \in 1..Len(Insts) : Insts[i].op = "adjuststack"].srcs[1].val
  ELSE 0

\* C3: the first four vector arguments of a lowered call are copied to
\* xmm0..xmm3 in order; every other argument is stored to esp + offset,
\* where the offsets increase with the position of the argument, are
\* multiples of 4 for scalars and of 16 for vectors and delimit areas that
\* do not overlap; the parameter area taken from esp is a multiple of 16
\* that holds them all.
C3_ArgumentLocations ==
  CallLowered =>
    /\ \A a \in 1..NumCallArgs : CallArgInXmm(a) => CopiedToXmm(a)
    /\ Cardinality(StoreIndices) = NumStoresExpected
    /\ \A a \in StackCallArgs :
         /\ StoredAtLocation(a)
         /\ ArgLocation(a) % (IF isVectorType(CallArgType(a)) THEN 16 ELSE 4) = 0
         /\ ArgLocation(a) + typeWidthInBytesOnStack(CallArgType(a)) <= ParameterArea
         /\ \A b \in StackCallArgs :
              a < b => ArgLocation(a) + typeWidthInBytesOnStack(CallArgType(a))
                         <= ArgLocation(b)
    /\ ParameterArea % 16 = 0
    /\ AdjustsStack <=> StackCallArgs # {}

\* A lowered call with four vectors in registers, and a scalar and a fifth
\* vector on the stack.
C3_Witness ==
  /\ CallLowered
  /\ \E a, b \in StackCallArgs :
       /\ a < b
       /\ ~isVectorType(CallArgType(a))
       /\ isVectorType(CallArgType(b))
       /\ ArgLocation(b) = 16
  /\ \E a \in 1..NumCallArgs : CallArgInXmm(a) /\ VectorsBefore(a) = 3

(***************************************************************************)
(* Claims about the lowering rules (SpecLower).                            *)
(***************************************************************************)
\* The instruction is one of the violations of the user's IR that the rules
\* diagnose.
IsIRViolation(inst) ==
  \/ /\ inst.op = "IntrinsicCall"
     /\ \/ inst.ID = "AtomicCmpxchg" /\ \E a \in {4, 5} : ~VerifyMemoryOrder(inst.srcs[a].val)
        \/ inst.ID = "AtomicFence" /\ ~VerifyMemoryOrder(inst.srcs[1].val)
        \/ inst.ID = "AtomicLoad" /\ ~VerifyMemoryOrder(inst.srcs[2].val)
        \/ inst.ID = "AtomicRMW" /\ ~VerifyMemoryOrder(inst.srcs[4].val)
        \/ inst.ID = "AtomicStore" /\ ~VerifyMemoryOrder(inst.srcs[3].val)
        \/ inst.ID = "AtomicIsLockFree" /\ inst.srcs[1].k # "Const"
        \/ inst.ID = "AtomicRMW" /\ inst.srcs[1].val \notin 1..Len(AtomicRMWOperations)
        \/ inst.ID = "UnknownIntrinsic"
  \/ inst.op = "Phi"
  \/ inst.op = "Cast" /\ inst.castKind \notin CastKinds

AtInstruction == Cur \in 1..Len(Insts) /\ ~Insts[Cur].deleted

\* C5: the lowering of an instruction that is a violation of the user's IR
\* sets the error state of the function and inserts no instruction: the
\* list of the node is the one before, with the lowered instruction marked
\* deleted.
C5_FailingRuleInsertsNothing ==
  [][(AtInstruction /\ IsIRViolation(Insts[Cur]))
       => /\ hasError'
          /\ Insts' = [Insts EXCEPT ![Cur].deleted = TRUE]]_vars

\* An AtomicRMW with a valid ordering and an unknown operation has been
\* lowered: the error is set and the branch of the node is the next
\* instruction.
C5_Witness ==
  /\ hasError
  /\ Cur = 2
  /\ Len(Insts) = 2
  /\ Insts[1].op = "IntrinsicCall" /\ Insts[1].ID = "AtomicRMW" /\ Insts[1].deleted
  /\ VerifyMemoryOrder(Insts[1].srcs[4].val)
  /\ Insts[1].srcs[1].val \notin 1..Len(AtomicRMWOperations)
  /\ Insts[2].op = "Br"

\* C7 as stated, on the register numbers: no Variable of type i64 has a
\* register number.
C7_NoI64Register ==
  \A i \in 1..Len(Variables) : Variables[i].ty = "i64" => ~hasReg(Variables[i])

\* The compare/branch fusion of lowerIcmp triggers at the current
\* instruction.
FusionTriggers ==
  /\ AtInstruction
  /\ Insts[Cur].op = "Icmp"
  /\ ~isVectorType(OperandType(Variables, Insts[Cur].dest))
  /\ OperandType(Variables, Insts[Cur].srcs[1]) # "i64"
  /\ Cur < Len(Insts)
  /\ Insts[Cur + 1].op = "Br"
  /\ ~isUnconditional(Insts[Cur + 1])
  /\ Insts[Cur + 1].srcs[1] = Insts[Cur].dest
  /\ isLastUse(Insts[Cur + 1], Insts[Cur].dest)

NumberOf(insts, P(_)) == Cardinality({i \in 1..Len(insts) : P(insts[i])})

\* C8: when the fusion of lowerIcmp triggers, the lowering inserts exactly
\* one cmp and exactly one conditional br between the icmp and the branch,
\* and both the icmp and the branch are marked deleted.
C8_FusionEmitsOneCmpOneBr ==
  [][FusionTriggers =>
       LET n == Len(Insts') - Len(Insts)
           emitted == SubSeq(Insts', Cur + 1, Cur + n)
       IN /\ NumberOf(emitted, LAMBDA inst : inst.op = "cmp") = 1
          /\ NumberOf(emitted, LAMBDA inst : inst.op = "br") = 1
          /\ NumberOf(emitted, LAMBDA inst : inst.op = "br" /\ inst.cond # "none") = 1
          /\ Insts'[Cur] = [Insts[Cur] EXCEPT !.deleted = TRUE]
          /\ Insts'[Cur + n + 1] = [Insts[Cur + 1] EXCEPT !.deleted = TRUE]
          /\ \A i \in 1..n : ~emitted[i].deleted]_vars

\* A fused pair: the deleted icmp, a cmp and a conditional br, the deleted
\* branch, and nothing left to lower.
C8_Witness ==
  \E i \in 1..Len(Insts) : \E j \in (i + 3)..Len(Insts) :
    /\ Insts[i].op = "Icmp" /\ Insts[i].deleted
    /\ Insts[j].op = "Br" /\ Insts[j].deleted
    /\ Insts[j - 2].op = "cmp"
    /\ Insts[j - 1].op = "br" /\ Insts[j - 1].cond = "l"
    /\ Insts[j - 1].targets = Insts[j].targets
    /\ Cur = j + 1

(***************************************************************************)
(* Claims about split64 (SpecSplit).                                       *)
(***************************************************************************)
IsHalf(vs, i) == vs[i] = [Var("i32", 1) EXCEPT !.isArg = vs[i].isArg]

\* C10: a call of split64 on a Variable of type i64 or f64 that has its
\* halves, directly or through loOperand or hiOperand, leaves every
\* Variable as it was, the pair included, and makes no Variable; the first
\* call makes the pair of i32 Variables; a call on a Variable of another
\* type changes nothing; loOperand and hiOperand return the halves of the
\* pair.
C10_Split64Idempotent ==
  LastCall.call # "none" =>
    LET before == LastCall.before
        operand == LastCall.operand
    IN IF operand.k # "Var" THEN Variables = before
       ELSE LET i == operand.v
                n == Len(before)
            IN /\ before[i].ty \notin {"i64", "f64"} => Variables = before
               /\ (before[i].ty \in {"i64", "f64"} /\ before[i].lo # 0) =>
                    Variables = before
               /\ (before[i].ty \in {"i64", "f64"} /\ before[i].lo = 0) =>
                    /\ Len(Variables) = n + 2
                    /\ Variables[i] = [before[i] EXCEPT !.lo = n + 1, !.hi = n + 2]
                    /\ \A j \in (1..n) \ {i} : Variables[j] = before[j]
                    /\ IsHalf(Variables, n + 1) /\ IsHalf(Variables, n + 2)
                    /\ Variables[n + 1].isArg = before[i].isArg
                    /\ Variables[n + 2].isArg = before[i].isArg
               /\ LastCall.call = "loOperand" => LastCall.ret = VarOp(Variables[i].lo)
               /\ LastCall.call = "hiOperand" => LastCall.ret = VarOp(Variables[i].hi)

\* split64 has been called on an f64 Variable that had its halves.
C10_Witness ==
  /\ LastCall.call = "split64"
  /\ LastCall.before[LastCall.operand.v].ty = "f64"
  /\ LastCall.before[LastCall.operand.v].lo # 0
  /\ Variables[LastCall.operand.v].hi = Variables[LastCall.operand.v].lo + 1

(***************************************************************************)
(* Claims about legalize (SpecLegalize).                                   *)
(***************************************************************************)
\* C11: legalize on the operand that legalize returned, with the same
\* allowed kinds, returns that operand, inserts no instruction and makes no
\* Variable.
C11_LegalizeIdempotent ==
  (LastCall # NoCall /\ LastCall.call = "legalize" /\ LastCall.again) =>
    /\ LastCall.ret = LastCall.operand
    /\ LastCall.inserted = 0
    /\ Variables = LastCall.before

\* legalize has been called again on the register that the first call made
\* for a stack Variable, a constant or a memory operand.
C11_Witness ==
  /\ LastCall # NoCall /\ LastCall.call = "legalize" /\ LastCall.again
  /\ LastCall.operand.k = "Var"
  /\ LastCall.operand.v > Len(LegalizeVariables)
  /\ Len(Insts) >= 1
  /\ Legal_Mem \notin LastCall.allowed

(***************************************************************************)
(* Claims about the address-mode optimization (SpecAddrOpt).               *)
(***************************************************************************)
\* C12: running doAddressOptLoad or doAddressOptStore on a load or store
\* whose address is already a folded memory operand changes nothing: no
\* instruction is marked deleted, none is inserted, and the memory operand
\* stays as it was.
C12_FoldingIsFixedPoint ==
  (LastCall # NoCall /\ LastCall.call = "doAddressOpt"
   /\ AddrOf(LastCall.inst).k = "Mem") =>
    /\ Insts = LastCall.before
    /\ Insts[Cur] = LastCall.inst

\* The optimization has run again on a rewritten load or store, whose memory
\* operand has an index and whose base still has a definition to look at.
C12_Witness ==
  /\ LastCall # NoCall /\ LastCall.call = "doAddressOpt"
  /\ AddrOf(LastCall.inst).k = "Mem"
  /\ AddrOf(LastCall.inst).index # 0
  /\ \E i \in 1..Len(Insts) : Insts[i].deleted
  /\ \E i \in 1..Len(Insts) : Insts[i].dest = VarOp(AddrOf(LastCall.inst).base)

(***************************************************************************)
(* Claims about lowerCountZeros (SpecCountZeros).                          *)
(***************************************************************************)
\* The number of trailing and of leading zero bits of a value of the given
\* type: the width of the type for the value zero.
TrailingZeros(ty, val) ==
  IF val.lo # {} THEN MinBit(val.lo)
  ELSE IF ty = "i64" /\ val.hi # {} THEN WordWidth + MinBit(val.hi)
  ELSE IF ty = "i64" THEN 2 * WordWidth ELSE WordWidth

LeadingZeros(ty, val) ==
  IF ty = "i64"
  THEN (IF val.hi # {} THEN WordWidth - 1 - MaxBit(val.hi)
        ELSE IF val.lo # {} THEN 2 * WordWidth - 1 - MaxBit(val.lo)
        ELSE 2 * WordWidth)
  ELSE IF val.lo # {} THEN WordWidth - 1 - MaxBit(val.lo) ELSE WordWidth

\* C13: the sequence that lowerCountZeros emits leaves in its destination
\* the number of trailing (cttz) or leading (ctlz) zero bits of the operand,
\* for every value of the operand: 32 for an i32 zero, and 64 with a high
\* half of zero for an i64 zero.
C13_CountZerosComputesCount ==
  (LastCall # NoCall /\ LastCall.call = "lowerCountZeros") =>
    /\ LastCall.dest.lo =
         WordOf(IF LastCall.cttz THEN TrailingZeros(LastCall.ty, LastCall.val)
                ELSE LeadingZeros(LastCall.ty, LastCall.val))
    /\ LastCall.dest.hi = {}

\* The sequence for ctlz has run on an i64 zero and has left 64.
C13_Witness ==
  /\ LastCall # NoCall /\ LastCall.call = "lowerCountZeros"
  /\ ~LastCall.cttz /\ LastCall.ty = "i64"
  /\ LastCall.val = [lo |-> {}, hi |-> {}]
  /\ LastCall.dest = [lo |-> {6}, hi |-> {}]
  /\ \E i \in 1..Len(Insts) : Insts[i].op = "test"

(***************************************************************************)
(* Claims about the i64 shifts of lowerArithmetic (SpecShift).             *)
(***************************************************************************)
ShiftCalled == LastCall # NoCall /\ LastCall.call = "lowerArithmetic"

\* The sign fill of a value: all ones when its highest bit is set.
SignFill(w) == IF (WordWidth - 1) \in w THEN Bits ELSE {}

\* C14, as claimed: for a count of 32 or more, the high half of a shl by 32
\* is the high half of the source, and the low half of the result is zero,
\* or the sign fill for ashr.
C14_HighHalfIsSrcHi ==
  (ShiftCalled /\ LastCall.count >= WordWidth) =>
    /\ (LastCall.op = "Shl" /\ LastCall.count = WordWidth) =>
         LastCall.dest.hi = LastCall.val.hi
    /\ LastCall.dest.lo =
         (IF LastCall.op = "Ashr" THEN SignFill(LastCall.val.hi) ELSE {})

\* C14, as the code has it: for a count of 32 + n with n < 32, shl leaves
\* the low half of the source shifted left by n in the high half and zero
\* in the low half (so the high half of a shl by 32 is the low half of the
\* source); lshr and ashr leave the high half of the source shifted right
\* by n in the low half, and zero (lshr) or the sign fill (ashr) in the
\* high half.
C14_ShiftAcrossHalves ==
  (ShiftCalled /\ LastCall.count >= WordWidth) =>
    LET n == LastCall.count - WordWidth IN
    CASE LastCall.op = "Shl" ->
           LastCall.dest = [lo |-> {}, hi |-> ShiftLeft(LastCall.val.lo, n)]
      [] LastCall.op = "Lshr" ->
           LastCall.dest = [lo |-> ShiftRight(LastCall.val.hi, n), hi |-> {}]
      [] LastCall.op = "Ashr" ->
           LastCall.dest =
             [lo |-> ShiftRight(LastCall.val.hi, n)
                       \cup (SignFill(LastCall.val.hi)
                               \cap ((WordWidth - n)..(WordWidth - 1))),
              hi |-> SignFill(LastCall.val.hi)]

\* A shl by 32 has run on a value whose halves differ, and has left the low
\* half of the source in the high half.
C14_Witness ==
  /\ ShiftCalled /\ LastCall.op = "Shl" /\ LastCall.count = WordWidth
  /\ LastCall.val = [lo |-> {3, 17}, hi |-> {0}]
  /\ LastCall.dest = [lo |-> {}, hi |-> {3, 17}]

\* The 64-bit results of the three shifts of the value w by n, on sets of
\* bit positions.
Shl64(w, n) == {i + n : i \in w} \cap (0..(DoubleWidth - 1))

Lshr64(w, n) == {i - n : i \in w} \cap (0..(DoubleWidth - 1))

Ashr64(w, n) ==
  Lshr64(w, n) \cup (IF (DoubleWidth - 1) \in w
                     THEN (DoubleWidth - n)..(DoubleWidth - 1) ELSE {})

\* C28: for every count in 0..63, constant or in a Variable, the sequence
\* emitted for an i64 shl, lshr or ashr leaves in dest.hi:dest.lo the value
\* shifted left, shifted right with zero fill, or shifted right with sign
\* fill, by the count.
C28_ShiftComputesResult ==
  ShiftCalled =>
    LastCall.dest =
      Halves(CASE LastCall.op = "Shl" ->
                      Shl64(Join(LastCall.val), LastCall.count)
                 [] LastCall.op = "Lshr" ->
                      Lshr64(Join(LastCall.val), LastCall.count)
                 [] LastCall.op = "Ashr" ->
                      Ashr64(Join(LastCall.val), LastCall.count))

\* An ashr by a count in a Variable, above 32, has run on a negative value
\* and has taken the half swap with sign fill.
C28_Witness ==
  /\ ShiftCalled /\ LastCall.op = "Ashr" /\ LastCall.count = WordWidth + 5
  /\ Insts[1].srcs[2].k = "Var"
  /\ LastCall.val = [lo |-> {3, 17}, hi |-> {0, WordWidth - 1}]
  /\ LastCall.dest = [lo |-> (WordWidth - 6)..(WordWidth - 1), hi |-> Bits]

\* A shl by a count below 32 has carried bits of the low half into the
\* high half.
C28_WitnessBelow ==
  /\ ShiftCalled /\ LastCall.op = "Shl" /\ LastCall.count = WordWidth - 1
  /\ LastCall.val = [lo |-> {3, 17}, hi |-> {0}]
  /\ LastCall.dest = [lo |-> {}, hi |-> {2, 16, WordWidth - 1}]

(***************************************************************************)
(* Claims about lowerSwitch (SpecLower).                                   *)
(***************************************************************************)
\* The switch at the head of the node has been lowered.
SwitchLowered == Insts[1].op = "Switch" /\ Insts[1].deleted

\* C15: the lowering of a switch with N cases has exactly N cmp and N je,
\* and ends with the N (cmp, je) pairs in case order followed by the one
\* jmp to the default label; the lowering of a switch without cases is that
\* jmp and nothing else, whatever the comparison operand is.
C15_SwitchIsPairsThenJmp ==
  SwitchLowered =>
    LET N == Len(Insts[1].values)
        First == Len(Insts) - 2 * N
    IN /\ First >= 2
       /\ \A I \in 1..N :
            /\ Insts[First + 2 * (I - 1)].op = "cmp"
            /\ Insts[First + 2 * (I - 1)].srcs[2] =
                 ConstOp("i32", Insts[1].values[I])
            /\ Insts[First + 2 * I - 1] = InstX8632Br("e", <<Insts[1].labels[I]>>)
       /\ Insts[Len(Insts)] = InstX8632Br("none", <<Insts[1].labelDefault>>)
       /\ Cardinality({i \in 1..Len(Insts) : Insts[i].op = "cmp"}) = N
       /\ Cardinality({i \in 1..Len(Insts) : Insts[i].op = "br"}) = N + 1
       /\ N = 0 => Len(Insts) = 2

(***************************************************************************)
(* Claims about Om1 postLower (SpecPostLower).                             *)
(***************************************************************************)
PostLowerCalled == LastCall # NoCall /\ LastCall.call = "postLower"

\* The instructions of the sequence that postLower was given, FakeKill and
\* deleted instructions left out.
Sequence ==
  {k \in LastCall.from..Len(Insts) :
     ~Insts[k].deleted /\ Insts[k].op # "FakeKill"}

\* The instructions of the sequence that reference the Variable v, as a
\* source or as the destination.
Refs(v) ==
  {k \in Sequence :
     \E j \in 1..Len(SrcVars(Insts[k].srcs) \o OperandVars(Insts[k].dest)) :
       (SrcVars(Insts[k].srcs) \o OperandVars(Insts[k].dest))[j] = v}

\* The Variables that postLower gave a register to.
Colored ==
  {v \in 1..Len(LastCall.before) :
     /\ LastCall.before[v].weight = "Inf" /\ ~hasReg(LastCall.before[v])
     /\ hasReg(Variables[v])}

\* C16: the register of an infinite-weight Variable is released by an
\* instruction that no reference to the Variable follows, as source or as
\* destination; and a Variable that holds the same register as another one
\* is referenced only after the last or before the first reference to the
\* other, never in the same instruction.
C16_ReleasedAfterLastReference ==
  PostLowerCalled =>
    \A v \in Colored :
      /\ LastCall.freedAt[v] # 0 => \A k \in Refs(v) : k <= LastCall.freedAt[v]
      /\ \A u \in 1..Len(Variables) :
           (u # v /\ Variables[u].regNum = Variables[v].regNum) =>
             \/ \A i \in Refs(u), j \in Refs(v) : i < j
             \/ \A i \in Refs(u), j \in Refs(v) : j < i

\* Two Variables were given the same register, the second one after the
\* first one had released it.
C16_Witness ==
  /\ PostLowerCalled
  /\ \E u \in Colored, v \in Colored :
       /\ u # v /\ Variables[u].regNum = Variables[v].regNum
       /\ LastCall.freedAt[u] # 0
       /\ Refs(u) # {} /\ Refs(v) # {}
       /\ \A i \in Refs(u), j \in Refs(v) : i < j

\* The Variables that had a register when postLower was called and are
\* referenced in the sequence, as a source or as the destination.
PreColored ==
  {u \in 1..Len(LastCall.before) : hasReg(LastCall.before[u]) /\ Refs(u) # {}}

\* The registers that postLower keeps from the Variables of type ty: those
\* outside the class of ty, the stack pointer, the frame pointer of an
\* ebp-based frame, and the registers of the pre-colored Variables.
KeptFrom(ty) ==
  (Registers \ getRegisterSetForType(ty))
    \cup {Reg_esp} \cup (IF LastCall.ebpBased THEN {Reg_ebp} ELSE {})
    \cup {Variables[u].regNum : u \in PreColored}

\* The Variables that are given a register before any other one is.
FirstColored ==
  {v \in Colored :
     \A u \in Colored \ {v} : \A i \in Refs(u), j \in Refs(v) : j < i}

\* The registers that a FakeKill of the sequence references.
Killed ==
  UNION {{Variables[SrcVars(Insts[k].srcs)[j]].regNum :
            j \in 1..Len(SrcVars(Insts[k].srcs))} :
           k \in {i \in LastCall.from..Len(Insts) :
                    ~Insts[i].deleted /\ Insts[i].op = "FakeKill"}}

\* C17: a register given by postLower is of the class of the Variable's
\* type, is not esp, is not ebp when the frame is ebp-based, and is not the
\* register of a pre-colored Variable that the sequence references as source
\* or destination.  A FakeKill triggers no assignment (every Variable that
\* is given a register is referenced by another instruction) and black-lists
\* nothing: the first Variable gets the lowest register that is not kept
\* from it, whether a FakeKill references that register or not.
C17_AssignedRegistersAreAllowed ==
  PostLowerCalled =>
    /\ \A v \in Colored :
         /\ Variables[v].regNum \notin KeptFrom(Variables[v].ty)
         /\ Refs(v) # {}
    /\ \A v \in FirstColored :
         \A r \in Registers \ KeptFrom(Variables[v].ty) : Variables[v].regNum <= r

\* A call has been lowered in an ebp-based frame: the sequence has a
\* FakeKill and pre-colored Variables, and a Variable was given a scratch
\* register that the FakeKill references.
C17_Witness ==
  /\ PostLowerCalled /\ LastCall.ebpBased
  /\ PreColored # {}
  /\ \E v \in FirstColored : Variables[v].regNum \in Killed

(***************************************************************************)
(* C18: whenever the frame is ebp-based when addProlog runs, no Variable   *)
(* of the function holds ebp as its register, the temporaries that         *)
(* postLower colored before the alloca was met included, so that the       *)
(* assertion of addProlog holds.                                           *)
(***************************************************************************)
AtAddProlog == AtStmt = Call("genFrame") /\ ~HasComputedFrame /\ ~Aborted

C18_NoVariableHoldsEbp ==
  (AtAddProlog /\ IsEbpBasedFrame) =>
    \A v \in 1..Len(Variables) : Variables[v].regNum # Reg_ebp

(***************************************************************************)
(* Claims about the calling convention (SpecAbi).                          *)
(***************************************************************************)
CalleeLaidOut == CallLowered /\ LastCall.call = "addProlog"

\* The argument a of the callee, and the Variable that holds its lowest
\* bytes: the low half of a split i64.
CalleeArg(a) == LastCall.vs[LastCall.args[a]]

CalleeLowest(a) ==
  IF CalleeArg(a).lo # 0 THEN LastCall.vs[CalleeArg(a).lo] ELSE CalleeArg(a)

\* The argument a of the callee arrives in a register: lowerArguments put
\* the home register in its place, and addProlog gave it no stack offset.
CalleeArgInRegister(a) ==
  /\ hasReg(CalleeArg(a)) /\ ~CalleeArg(a).hasOffset
  /\ CalleeArg(a).lo = 0

\* The bytes between the frame pointer (ebp or esp) after the prolog of the
\* callee and esp on its entry, where the return address is: the pushes,
\* and the "sub esp, N" when esp is the frame pointer.
CalleeFrameToEntry ==
  LET insts == LastCall.insts
      subs == {i \in 1..Len(insts) :
                 /\ insts[i].op = "sub" /\ insts[i].dest.k = "Var"
                 /\ LastCall.vs[insts[i].dest.v].regNum = Reg_esp}
  IN 4 * NumPushes(insts)
       + (IF LastCall.ebpBased \/ subs = {} THEN 0
          ELSE insts[CHOOSE i \in subs : TRUE].srcs[2].val)

\* The offset from just above the return address at which the callee
\* expects the argument a.
CalleeOffset(a) ==
  CalleeLowest(a).stackOffset - CalleeFrameToEntry - X86_RET_IP_SIZE_BYTES

\* C19: caller and callee agree on the locations of the arguments: the
\* arguments that lowerCall copies to xmm0..xmm3 are those for which
\* lowerArguments made the home register of the same number, and every
\* other argument is stored by lowerCall at the offset from esp that is the
\* offset from just above the return address at which addProlog
\* (finishArgumentLowering) expects it; the halves of a split i64 are
\* expected at that offset and 4 above it.
C19_CallerAndCalleeAgree ==
  CalleeLaidOut =>
    /\ Len(LastCall.args) = NumCallArgs
    /\ \A a \in 1..NumCallArgs :
         /\ CallArgInXmm(a) <=> CalleeArgInRegister(a)
         /\ CallArgInXmm(a) =>
              /\ CopiedToXmm(a)
              /\ CalleeArg(a).regNum = Reg_xmm0 + VectorsBefore(a)
         /\ ~CallArgInXmm(a) =>
              /\ StoredAtLocation(a)
              /\ CalleeLowest(a).hasOffset
              /\ CalleeOffset(a) = ArgLocation(a)
              /\ CalleeArg(a).lo # 0 =>
                   /\ LastCall.vs[CalleeArg(a).hi].hasOffset
                   /\ LastCall.vs[CalleeArg(a).hi].stackOffset
                        = CalleeLowest(a).stackOffset + 4

\* Four vectors in registers, then a split i64 and a fifth vector on the
\* stack, the vector 16 bytes above the return address, in a callee whose
\* frame pointer is esp and whose prolog pushes nothing.
C19_Witness ==
  /\ CalleeLaidOut
  /\ ~LastCall.ebpBased
  /\ \E a, b \in StackCallArgs :
       /\ a < b
       /\ CalleeArg(a).lo # 0
       /\ isVectorType(CallArgType(b))
       /\ ArgLocation(b) = 16
       /\ CalleeOffset(b) = 16
  /\ \E a \in 1..NumCallArgs : CalleeArgInRegister(a) /\ VectorsBefore(a) = 3

(***************************************************************************)
(* Claims about the spill slots (SpecSpill).                               *)
(***************************************************************************)
\* The Variables that addProlog gives a slot of the spill area, and those
\* that take the slot of the Variable they are linked to.
Spilled ==
  LET S == SpilledVariables(Variables, ComputedLiveRanges)
  IN {S[n] : n \in 1..Len(S)}

LinkedToSlot ==
  LET L == VariablesLinkedToSpillSlots(Variables, ComputedLiveRanges)
  IN {L[n] : n \in 1..Len(L)}

\* The Variable whose slot the Variable i occupies.
SlotOwner(i) == IF i \in LinkedToSlot THEN Variables[i].pref ELSE i

\* The bytes that the prolog took from esp before the spill area (the
\* return address and the pushes) and with it.
PreservedEnd == X86_RET_IP_SIZE_BYTES + 4 * NumPushes(Insts)

SpillAreaEnd == PreservedEnd + SubEspBytes(Insts)

\* The first byte of the slot of the Variable i, as a distance below the
\* address just above the return address, which is a multiple of 16 when
\* the caller kept the stack aligned; the slot ends SlotWidth(i) bytes
\* higher.
SlotStart(i) ==
  (IF IsEbpBasedFrame THEN PreservedEnd ELSE SpillAreaEnd) - Variables[i].stackOffset

SlotWidth(i) == typeWidthInBytesOnStack(Variables[i].ty)

InSpillArea(i) ==
  /\ SlotStart(i) <= SpillAreaEnd
  /\ SlotStart(i) - SlotWidth(i) >= PreservedEnd

SlotAligned(i) == SlotStart(i) % SlotWidth(i) = 0

SlotsDisjoint(i, j) ==
  \/ SlotStart(i) - SlotWidth(i) >= SlotStart(j)
  \/ SlotStart(j) - SlotWidth(j) >= SlotStart(i)

\* Single-block Variables of different blocks, which share the locals area
\* when no call returns twice.
MayShare(i, j) ==
  /\ ~CallsReturnsTwice
  /\ ~isMultiblockLife(Variables[i]) /\ ~isMultiblockLife(Variables[j])
  /\ Variables[i].node # Variables[j].node

\* C20 as stated: after addProlog the slot of every spilled Variable, the
\* linked ones included, lies inside the spill area and starts at a
\* multiple of the on-stack width of the Variable, and the slots of two
\* spilled Variables are disjoint unless they are single-block Variables of
\* different blocks in a function without returns-twice call, or share a
\* slot through a link.
C20_SlotsInSpillArea ==
  HasComputedFrame =>
    /\ \A i \in Spilled \cup LinkedToSlot :
         Variables[i].hasOffset /\ InSpillArea(i) /\ SlotAligned(i)
    /\ \A i, j \in Spilled \cup LinkedToSlot :
         (i # j /\ SlotOwner(i) # SlotOwner(j) /\ ~MayShare(i, j))
           => SlotsDisjoint(i, j)

\* C20: the same, but that a Variable linked to an argument passed on the
\* stack takes the location of the argument, above the return address,
\* which is a multiple of 4.
C20_SlotsInSpillAreaButLinkedToArgument ==
  HasComputedFrame =>
    /\ \A i \in Spilled \cup LinkedToSlot :
         /\ Variables[i].hasOffset
         /\ IF Variables[SlotOwner(i)].isArg
            THEN /\ Variables[i].stackOffset = Variables[SlotOwner(i)].stackOffset
                 /\ SlotStart(i) <= 0
                 /\ SlotStart(i) % 4 = 0
            ELSE InSpillArea(i) /\ SlotAligned(i)
    /\ \A i, j \in Spilled \cup LinkedToSlot :
         (i # j /\ SlotOwner(i) # SlotOwner(j) /\ ~MayShare(i, j))
           => SlotsDisjoint(i, j)

\* A multi-block v4f32 and an f64 and an i32 of one block after two pushed
\* registers, esp being the frame pointer ...
C20_Witness ==
  /\ HasComputedFrame /\ ~IsEbpBasedFrame
  /\ NumPushes(Insts) = 2
  /\ \E i, j \in Spilled :
       /\ i # j
       /\ Variables[i].ty = "v4f32" /\ isMultiblockLife(Variables[i])
       /\ Variables[j].ty = "f64" /\ ~isMultiblockLife(Variables[j])
       /\ SlotsDisjoint(i, j)
       /\ SlotStart(i) % 16 = 0
  /\ \E k \in LinkedToSlot : SlotOwner(k) \in Spilled /\ Variables[k].ty = "f64"

\* ... two single-block Variables of different blocks that share bytes ...
C20_WitnessShared ==
  /\ HasComputedFrame
  /\ \E i, j \in Spilled : i # j /\ MayShare(i, j) /\ ~SlotsDisjoint(i, j)

\* ... and a spill slot linked to the f64 argument, above the return
\* address.
C20_WitnessLinkedToArgument ==
  /\ HasComputedFrame
  /\ \E k \in LinkedToSlot : Variables[SlotOwner(k)].isArg /\ SlotStart(k) = 0

(***************************************************************************)
(* Claims about the epilog (SpecEpilog).                                   *)
(***************************************************************************)
EpilogAdded == LastCall.call = "addEpilog"

\* The node has a ret, and the instructions that addEpilog put before it.
HasRet == EpilogAdded /\ LastRet(LastCall.before) # 0

EpilogLength == Len(Insts) - Len(LastCall.before)

Epilog ==
  SubSeq(Insts, LastRet(LastCall.before),
         LastRet(LastCall.before) + EpilogLength - 1)

RegOf(operand) == Variables[operand.v].regNum

\* The registers that the instructions push and pop, in order.
PushedBy(insts) ==
  LET pushes == SelectSeq(insts, LAMBDA I : I.op = "push")
  IN [i \in 1..Len(pushes) |-> RegOf(pushes[i].srcs[1])]

PoppedBy(insts) ==
  LET pops == SelectSeq(insts, LAMBDA I : I.op = "pop")
  IN [i \in 1..Len(pops) |-> RegOf(pops[i].dest)]

\* The instructions that restore esp, at the head of the epilog.
EspRestore ==
  IF IsEbpBasedFrame
  THEN <<"mov", "pop">>
  ELSE IF SpillAreaSizeBytes # 0 THEN <<"add">> ELSE << >>

RestoresEsp ==
  /\ Len(Epilog) >= Len(EspRestore)
  /\ \A i \in 1..Len(EspRestore) : Epilog[i].op = EspRestore[i]
  /\ \A i \in 1..Len(Epilog) : i > Len(EspRestore) => Epilog[i].op = "pop"
  /\ IF IsEbpBasedFrame
     THEN /\ RegOf(Epilog[1].dest) = Reg_esp
          /\ RegOf(Epilog[1].srcs[1]) = Reg_ebp
          /\ RegOf(Epilog[2].dest) = Reg_ebp
     ELSE SpillAreaSizeBytes # 0 =>
            /\ RegOf(Epilog[1].dest) = Reg_esp
            /\ Epilog[1].srcs[2] = ConstOp("i32", SpillAreaSizeBytes)

\* The bytes that the epilog gives back to esp: "mov esp, ebp" gives back
\* what the prolog took with its sub, "add esp, N" gives back N, a pop 4.
BytesReleased ==
  4 * Len(PoppedBy(Epilog))
    + (IF IsEbpBasedFrame THEN SubEspBytes(LastCall.before)
       ELSE IF SpillAreaSizeBytes # 0 THEN Epilog[1].srcs[2].val ELSE 0)

BytesReserved == 4 * NumPushes(LastCall.before) + SubEspBytes(LastCall.before)

\* C21: in a node with a ret, addEpilog puts right before the ret the
\* restore of esp (mov esp, ebp and pop ebp with a frame pointer, otherwise
\* add esp, SpillAreaSizeBytes when that is not zero) and then the pops of
\* the registers that addProlog pushed, in the reverse order of the pushes,
\* and the epilog releases the bytes that the prolog reserved; a node
\* without ret is left as it was.
C21_EpilogMirrorsProlog ==
  EpilogAdded =>
    IF HasRet
    THEN /\ Insts = SubSeq(LastCall.before, 1, LastRet(LastCall.before) - 1)
                      \o Epilog
                      \o SubSeq(LastCall.before, LastRet(LastCall.before),
                                Len(LastCall.before))
         /\ RestoresEsp
         /\ PoppedBy(Epilog) = Reverse(PushedBy(LastCall.before))
         /\ BytesReleased = BytesReserved
    ELSE Insts = LastCall.before

(***************************************************************************)
(* Claims about the regions of the spill area (SpecSpill).                 *)
(***************************************************************************)
\* The sum of the on-stack widths of the Variables of S.
RECURSIVE WidthSum(_)
WidthSum(S) ==
  IF S = {} THEN 0
  ELSE LET i == CHOOSE x \in S : TRUE IN SlotWidth(i) + WidthSum(S \ {i})

\* The bytes from the lowest byte to the highest byte of the slots of S.
RegionWidth(S) ==
  IF S = {} THEN 0
  ELSE LET top == CHOOSE d \in {SlotStart(i) - SlotWidth(i) : i \in S} :
                    \A i \in S : d <= SlotStart(i) - SlotWidth(i)
           bottom == CHOOSE d \in {SlotStart(i) : i \in S} :
                       \A i \in S : SlotStart(i) <= d
       IN bottom - top

SpilledGlobals == {i \in Spilled : isMultiblockLife(Variables[i])}

SpilledLocals == Spilled \ SpilledGlobals

SpilledLocalsOf(n) == {i \in SpilledLocals : Variables[i].node = n}

\* The largest of the sums of the widths of the single-block spilled
\* Variables of a node.
MaxOverNodes ==
  LET sums == {WidthSum(SpilledLocalsOf(n)) : n \in 1..NumNodes}
  IN CHOOSE m \in sums : \A s \in sums : s <= m

\* C22: without returns-twice call, the slots of the single-block spilled
\* Variables take a region as wide as the largest sum, over the nodes, of
\* the widths of the single-block spilled Variables of the node, and the
\* slots of the multi-block ones a region as wide as the sum of their
\* widths; with a returns-twice call the slots of all the spilled Variables
\* take the sum of their widths.
C22_RegionWidths ==
  HasComputedFrame =>
    IF CallsReturnsTwice
    THEN RegionWidth(Spilled) = WidthSum(Spilled)
    ELSE /\ RegionWidth(SpilledLocals) = MaxOverNodes
         /\ RegionWidth(SpilledGlobals) = WidthSum(SpilledGlobals)

\* Without returns-twice call: an f64 in one node, an i32 and an f64 in the
\* other, in a locals region of 12 bytes.
C22_Witness ==
  /\ HasComputedFrame /\ ~CallsReturnsTwice
  /\ \E i, j \in SpilledLocals :
       /\ Variables[i].node # Variables[j].node
       /\ Variables[i].ty = "f64" /\ Variables[j].ty = "i32"
       /\ WidthSum(SpilledLocalsOf(Variables[i].node)) = 8
       /\ WidthSum(SpilledLocalsOf(Variables[j].node)) = 12
  /\ RegionWidth(SpilledLocals) = 12
  /\ WidthSum(SpilledLocals) = 20

(***************************************************************************)
(* Claims about the cmpxchg loop of an atomic read-modify-write.           *)
(***************************************************************************)
\* a + b + cin modulo 2^64, on sets of bit positions.
Add64(a, b, cin) ==
  LET carry[i \in 0..DoubleWidth] ==
        IF i = 0 THEN cin
        ELSE IF (i - 1) \in a /\ (i - 1) \in b THEN TRUE
        ELSE IF (i - 1) \in a \/ (i - 1) \in b THEN carry[i - 1]
        ELSE FALSE
  IN {i \in 0..(DoubleWidth - 1) : ((i \in a) # (i \in b)) # carry[i]}

\* The value that the operation leaves in the location that held old.
RMWResult(operation, old, val) ==
  LET a == Join(old)
      b == Join(val)
  IN Halves(CASE operation = "AtomicAdd" -> Add64(a, b, FALSE)
              [] operation = "AtomicSub" ->
                   Add64(a, (0..(DoubleWidth - 1)) \ b, TRUE)
              [] operation = "AtomicOr" -> a \cup b
              [] operation = "AtomicAnd" -> a \cap b
              [] operation = "AtomicXor" -> (a \ b) \cup (b \ a)
              [] operation = "AtomicExchange" -> b)

ThreadDone(L, t) == L.threads[t].pc > Len(L.code)

\* The successful cmpxchg instructions of the thread t.
Successes(L, t) == {k \in 1..Len(L.log) : L.log[k].thread = t}

\* The value of the thread's dest.
DestOf(L, t) ==
  [lo |-> L.threads[t].regs[L.dest.lo],
   hi |-> IF L.dest.hi = 0 THEN {} ELSE L.threads[t].regs[L.dest.hi]]

\* C23: under every interleaving of the threads' instructions, the
\* location holds the operations of the successful cmpxchg instructions
\* applied one after the other to its first value; each of them writes the
\* result of its thread's operation on the value that the location held
\* just before; no thread succeeds twice; and a thread that has finished
\* has succeeded once and has in its dest the value that the location held
\* just before its cmpxchg.
C23_EachOperationOnceAndAtomic ==
  LastCall.call = "lowerAtomicRMW" =>
    LET L == LastCall IN
    /\ L.mem = IF L.log = << >> THEN L.start ELSE L.log[Len(L.log)].new
    /\ \A k \in 1..Len(L.log) :
         /\ L.log[k].old = IF k = 1 THEN L.start ELSE L.log[k - 1].new
         /\ L.log[k].new =
              RMWResult(L.operation, L.log[k].old, L.vals[L.log[k].thread])
    /\ \A t \in Threads :
         /\ Cardinality(Successes(L, t)) <= 1
         /\ ThreadDone(L, t) =>
              \E k \in Successes(L, t) : DestOf(L, t) = L.log[k].old

\* Every thread has finished an i64 operation whose operand is a Variable,
\* the two loads of one of them gave a pair of words that the location
\* never held, and the location has changed.
C23_Witness ==
  /\ LastCall.call = "lowerAtomicRMW"
  /\ LastCall.ty = "i64"
  /\ \A t \in Threads : ThreadDone(LastCall, t)
  /\ \E t \in Threads : LastCall.threads[t].torn
  /\ Len(LastCall.log) = NumThreads
  /\ LastCall.mem # LastCall.start

\* Every thread has finished an i32 or, and or xor, and the cmpxchg of one
\* of them has written after another thread's.
C23_WitnessWord ==
  /\ LastCall.call = "lowerAtomicRMW"
  /\ LastCall.ty = "i32"
  /\ \A t \in Threads : ThreadDone(LastCall, t)
  /\ \E k \in 2..Len(LastCall.log) : LastCall.log[k].old # LastCall.start

(***************************************************************************)
(* Claims about tryOptimizedCmpxchgCmpBr.                                  *)
(***************************************************************************)
\* A step that lowers an atomic cmpxchg whose memory orders are valid.
CmpxchgStep ==
  /\ Cur \in 1..Len(Insts)
  /\ Cur' # Cur
  /\ Insts[Cur].op = "IntrinsicCall"
  /\ Insts[Cur].ID = "AtomicCmpxchg"
  /\ \A a \in {4, 5} : VerifyMemoryOrder(Insts[Cur].srcs[a].val)

\* The instructions that the step inserted, and the instructions after
\* them before and after the step.
CmpxchgEmitted == SubSeq(Insts', Cur + 1, Cur + Len(Insts') - Len(Insts))

CmpxchgRestBefore == SubSeq(Insts, Cur + 1, Len(Insts))

CmpxchgRestAfter == SubSeq(Insts', Cur + 1 + Len(CmpxchgEmitted), Len(Insts'))

\* The optimization triggered: a branch was emitted.
CmpBrTriggered ==
  \E i \in 1..Len(CmpxchgEmitted) : CmpxchgEmitted[i].op = "br"

\* The n first of the following instructions are assigns that do not write
\* the cmpxchg's dest, the next is an icmp eq of dest and expected, and the
\* next a conditional branch on the icmp's dest at its last use.
CmpBrPattern(n) ==
  LET F == CmpxchgRestBefore
      Dest == Insts[Cur].dest
      Expected == Insts[Cur].srcs[2]
  IN /\ optLevel # "Om1"
     /\ Len(F) >= n + 2
     /\ \A i \in 1..n : F[i].op = "Assign" /\ F[i].dest # Dest
     /\ F[n + 1].op = "Icmp" /\ F[n + 1].cond = "Eq"
     /\ F[n + 1].srcs \in {<<Dest, Expected>>, <<Expected, Dest>>}
     /\ F[n + 2].op = "Br" /\ F[n + 2].srcs = <<F[n + 1].dest>>
     /\ F[n + 1].dest.v \in F[n + 2].lastUses

\* The sequence of lowerAtomicCmpxchg alone.
CmpxchgSequence ==
  lowerAtomicCmpxchg(NewContext, Insts[Cur].dest, Insts[Cur].srcs[1],
                     Insts[Cur].srcs[2], Insts[Cur].srcs[3]).insts

\* The Variables that the assign writes: its dest, or the halves of an i64
\* dest.
AssignedBy(vs, Assign) ==
  IF vs[Assign.dest.v].ty = "i64"
  THEN <<vs[Assign.dest.v].lo, vs[Assign.dest.v].hi>>
  ELSE <<Assign.dest.v>>

RECURSIVE AssignedByAll(_, _)
AssignedByAll(vs, assigns) ==
  IF assigns = << >> THEN << >>
  ELSE AssignedBy(vs, assigns[1]) \o AssignedByAll(vs, Tail(assigns))

\* The Variables that the instructions of insts write with a mov, of those
\* of the set written.
MovedTo(insts, written) ==
  LET movs == SelectSeq(insts, LAMBDA I : I.op = "mov" /\ I.dest.v \in written)
  IN [i \in 1..Len(movs) |-> movs[i].dest.v]

\* The effect of the optimization on n assigns, an icmp and a branch.
CmpBrEffect(n) ==
  LET E == CmpxchgEmitted
      F == CmpxchgRestBefore
      S == CmpxchgSequence
      Mid == SubSeq(E, Len(S) + 1, Len(E) - 1)
      Written == AssignedByAll(Variables', SubSeq(F, 1, n))
  IN /\ Len(E) >= Len(S) + 1
     /\ SubSeq(E, 1, Len(S)) = S
     /\ E[Len(E)] = InstX8632Br("e", F[n + 2].targets)
     /\ \A i \in 1..Len(Mid) : Mid[i].op = "mov"
     /\ MovedTo(Mid, {Written[i] : i \in 1..Len(Written)}) = Written
     /\ CmpxchgRestAfter =
          [i \in 1..Len(F) |-> IF i <= n + 2 THEN [F[i] EXCEPT !.deleted = TRUE]
                               ELSE F[i]]
     /\ Cur' = Cur + 1 + Len(E) + n + 2

\* C24: a step that lowers an atomic cmpxchg fuses the compare and the
\* branch only outside Om1 and when assigns that do not write dest, an
\* icmp eq of dest and expected and a conditional branch on the icmp's
\* dest at its last use follow; it then emits the cmpxchg sequence, the
\* lowered assigns in their order and one branch on "e" to the targets of
\* the branch, marks the assigns, the icmp and the branch deleted and steps
\* over them; otherwise it emits the cmpxchg sequence alone and leaves the
\* following instructions as they were.
C24_FusesOnlyThePattern ==
  [][CmpxchgStep =>
       IF CmpBrTriggered
       THEN \E n \in 0..Len(CmpxchgRestBefore) : CmpBrPattern(n) /\ CmpBrEffect(n)
       ELSE /\ \A n \in 0..Len(CmpxchgRestBefore) : ~CmpBrPattern(n)
            /\ CmpxchgEmitted = CmpxchgSequence
            /\ CmpxchgRestAfter = CmpxchgRestBefore
            /\ Cur' = Cur + 1 + Len(CmpxchgEmitted)]_vars

\* The cmpxchg was fused with the branch over two assigns, one of them to
\* an i64 Variable: the call, the assigns, the icmp and the br are deleted,
\* and a branch on "e" stands before them.
C24_Witness ==
  /\ Len(Insts) >= 5
  /\ Insts[1].op = "IntrinsicCall" /\ Insts[1].ID = "AtomicCmpxchg" /\ Insts[1].deleted
  /\ \E i \in 2..(Len(Insts) - 4) :
       /\ Insts[i] = InstX8632Br("e", <<"true", "false">>)
       /\ Insts[i + 1].op = "Assign" /\ Insts[i + 1].deleted
       /\ Insts[i + 2].op = "Assign" /\ Insts[i + 2].deleted
       /\ Insts[i + 2].dest = VarOp(6)
       /\ Insts[i + 3].op = "Icmp" /\ Insts[i + 3].deleted
       /\ Insts[i + 4].op = "Br" /\ Insts[i + 4].deleted
       /\ Cur = i + 5

(***************************************************************************)
(* Claims about the fusion of a load with the arithmetic that follows it.  *)
(***************************************************************************)
\* A step that lowers a load.
LoadStep ==
  /\ Cur \in 1..Len(Insts)
  /\ Cur' # Cur
  /\ Insts[Cur].op = "Load"

LoadEmitted == SubSeq(Insts', Cur + 1, Cur + Len(Insts') - Len(Insts))

LoadRestBefore == SubSeq(Insts, Cur + 1, Len(Insts))

LoadRestAfter == SubSeq(Insts', Cur + 1 + Len(LoadEmitted), Len(Insts'))

\* The load was fused: the instruction after it is marked deleted.
LoadFused == LoadRestAfter # << >> /\ LoadRestAfter[1].deleted

\* The operand itself and, for an i64, its halves.
PartsOf(vs, Operand) ==
  {Operand}
    \cup (CASE Operand.k = "Var" /\ vs[Operand.v].ty = "i64" ->
                 {VarOp(vs[Operand.v].lo), VarOp(vs[Operand.v].hi)}
            [] Operand.k = "Const" /\ Operand.ty = "i64" ->
                 {ConstOp("i32", Operand.val[1]), ConstOp("i32", Operand.val[2])}
            [] OTHER -> {})

\* The instructions that compute the operation.
OperationInsts(op, ty) ==
  CASE ty = "i64" /\ op = "Add" -> {"add", "adc"}
    [] ty = "i64" /\ op = "Sub" -> {"sub", "sbb"}
    [] OTHER -> {ScalarOp(op)}

\* What the Variable T holds in the sequence E: the source of the only mov
\* that writes it.
SourceIn(E, T) ==
  LET movs == SelectSeq(E, LAMBDA I : I.op = "mov" /\ I.dest = T)
  IN IF Len(movs) = 1 THEN movs[1].srcs[1] ELSE NoOperand

\* The conditions of the fusion: Dest is an operand of Arith at its last
\* use and not the other operand as well, and not the first operand of an
\* operation that is not commutative.
LoadFusible(Arith, Dest) ==
  /\ Arith.op = "Arithmetic"
  /\ Dest.v \in Arith.lastUses
  /\ \/ Arith.srcs[2] = Dest /\ Arith.srcs[1] # Dest
     \/ /\ Arith.srcs[1] = Dest /\ Arith.srcs[2] # Dest
        /\ Arith.arith \in {"Add", "Mul", "And", "Or", "Xor"}

\* The emitted sequence computes Arith once, on other and the memory
\* operand in this order, and does not write the load's Dest.
LoadFusedEffect(Arith, Dest) ==
  LET E == LoadEmitted
      ty == Variables[Arith.dest.v].ty
      other == IF Arith.srcs[2] = Dest THEN Arith.srcs[1] ELSE Arith.srcs[2]
      ops == SelectSeq(E, LAMBDA I : I.op \in OperationInsts(Arith.arith, ty))
      FromMemory(Operand) ==
        \/ Operand.k = "Mem"
        \/ Operand.k = "Var" /\ SourceIn(E, Operand).k = "Mem"
  IN /\ Len(ops) = IF ty = "i64" THEN 2 ELSE 1
     /\ \A i \in 1..Len(ops) :
          /\ SourceIn(E, ops[i].srcs[1]) \in PartsOf(Variables', other)
          /\ FromMemory(ops[i].srcs[2])
     /\ \A i \in 1..Len(E) : E[i].dest \notin PartsOf(Variables', Dest)
     /\ \E i \in 1..Len(E) :
          E[i].op = "mov" /\ E[i].dest \in PartsOf(Variables', Arith.dest)
     /\ LoadRestAfter = <<[Arith EXCEPT !.deleted = TRUE]>> \o Tail(LoadRestBefore)
     /\ Cur' = Cur + 1 + Len(E) + 1

\* C25: a step that lowers a load fuses it with the next instruction only
\* if this is an arithmetic instruction that has the load's dest as an
\* operand at its last use and not as its other operand too, the first
\* operand only of a commutative operation; the arithmetic is then marked
\* deleted and stepped over, the operation is emitted once with the other
\* operand first and the memory operand second, and the load's dest is not
\* written; otherwise the load is lowered like an assign and the next
\* instruction is left as it was.
C25_FusesLoadIntoArithmetic ==
  [][LoadStep =>
       IF LoadFused
       THEN /\ LoadFusible(LoadRestBefore[1], Insts[Cur].dest)
            /\ LoadFusedEffect(LoadRestBefore[1], Insts[Cur].dest)
       ELSE /\ LoadRestBefore # << >> =>
                 ~LoadFusible(LoadRestBefore[1] @@ [lastUses |-> {}],
                              Insts[Cur].dest)
            /\ LoadRestAfter = LoadRestBefore
            /\ \E i \in 1..Len(LoadEmitted) :
                 /\ LoadEmitted[i].op = "mov"
                 /\ LoadEmitted[i].dest \in PartsOf(Variables', Insts[Cur].dest)
            /\ Cur' = Cur + 1 + Len(LoadEmitted)]_vars

\* A load was fused into a sub whose second operand it feeds: the sub is
\* deleted and a sub from memory into a copy of the first operand stands
\* before it.
C25_Witness ==
  /\ Len(Insts) >= 3
  /\ Insts[1].op = "Load" /\ Insts[1].deleted
  /\ Insts[Len(Insts)].op = "Arithmetic" /\ Insts[Len(Insts)].deleted
  /\ Insts[Len(Insts)].arith = "Sub"
  /\ Insts[Len(Insts)].srcs = <<VarOp(3), VarOp(1)>>
  /\ \E i \in 2..(Len(Insts) - 1) :
       /\ Insts[i].op = "sub" /\ Insts[i].srcs[2].k = "Mem"
       /\ \E j \in 2..(i - 1) :
            /\ Insts[j].op = "mov" /\ Insts[j].dest = Insts[i].dest
            /\ Insts[j].srcs = <<VarOp(3)>>
  /\ Cur = Len(Insts) + 1

\* A load was fused into a commutative operation whose first operand it
\* feeds.
C25_WitnessCommuted ==
  /\ Len(Insts) >= 3
  /\ Insts[1].op = "Load" /\ Insts[1].deleted
  /\ Insts[Len(Insts)].op = "Arithmetic" /\ Insts[Len(Insts)].deleted
  /\ Insts[Len(Insts)].srcs = <<VarOp(1), VarOp(3)>>
  /\ \E i \in 2..(Len(Insts) - 1) :
       Insts[i].op \in {"add", "imul", "xor"} /\ Insts[i].srcs[2].k = "Mem"

(***************************************************************************)
(* Claims about the Variables that address-mode folding takes.             *)
(***************************************************************************)
\* The memory operands that the optimization has put into the loads and
\* stores of the node.
FoldedOperands ==
  {AddrOf(Insts[i]) : i \in {j \in 1..Len(Insts) :
                               /\ Insts[j].op \in {"Load", "Store"}
                               /\ ~Insts[j].deleted
                               /\ AddrOf(Insts[j]).k = "Mem"}}

\* The Variables of a memory operand.
OperandVariables(Mem) == {Mem.base, Mem.index} \ {0}

\* C26: no Variable with multi-block lifetime is the base or the index of
\* a memory operand that the address-mode optimization has made.
C26_FoldsOnlySingleBlockVariables ==
  \A Mem \in FoldedOperands :
    \A v \in OperandVariables(Mem) : ~isMultiblockLife(Variables[v])

(***************************************************************************)
(* Claims about the address that a folded memory operand denotes.          *)
(***************************************************************************)
\* A 32-bit address as its two 16-bit halves, each a number.
HalfRange == 2 ^ (WordWidth \div 2)

Address(hi, lo) == [hi |-> hi, lo |-> lo]

\* The values that Variables 1 and 2 may hold on entry to the node.
ChainValues == {Address(0, 1), Address(HalfRange - 1, HalfRange - 1),
                Address(HalfRange \div 2, 17)}

ChainEnvs == [{1, 2} -> ChainValues]

\* The 32-bit value of a signed integer.
SignedAddress(n) ==
  IF n >= 0 THEN Address(n \div HalfRange, n % HalfRange)
  ELSE Address(HalfRange - 1 - ((-n - 1) \div HalfRange),
               HalfRange - 1 - ((-n - 1) % HalfRange))

\* a + b, a - b and a * n modulo 2^32, for a number n below 2^15.
AddAddress(a, b) ==
  Address((a.hi + b.hi + ((a.lo + b.lo) \div HalfRange)) % HalfRange,
          (a.lo + b.lo) % HalfRange)

SubAddress(a, b) ==
  AddAddress(AddAddress(a, Address(HalfRange - 1 - b.hi, HalfRange - 1 - b.lo)),
             Address(0, 1))

MulAddress(a, n) ==
  Address((a.hi * n + ((a.lo * n) \div HalfRange)) % HalfRange,
          (a.lo * n) % HalfRange)

\* The value of Variable v, and of an operand, after the instructions of
\* the chain have run on the entry values env.
RECURSIVE ChainValue(_, _, _)
ChainOperand(insts, env, Operand) ==
  IF Operand.k = "Var" THEN ChainValue(insts, env, Operand.v)
  ELSE SignedAddress(Operand.val)

ChainValue(insts, env, v) ==
  IF v \in DOMAIN env THEN env[v]
  ELSE LET Def == getDefinition(insts, v)
           Src(i) == ChainOperand(insts, env, Def.srcs[i])
       IN CASE Def.op = "Assign" -> Src(1)
            [] Def.op = "Add" -> AddAddress(Src(1), Src(2))
            [] Def.op = "Sub" -> SubAddress(Src(1), Src(2))
            [] Def.op = "Mul" -> MulAddress(Src(1), Def.srcs[2].val)

\* The address that a memory operand denotes:
\* Base + Index * 2^Shift + Offset modulo 2^32.
AddressOf(insts, env, Mem) ==
  LET Base == IF Mem.base = 0 THEN Address(0, 0)
              ELSE ChainValue(insts, env, Mem.base)
      Index == IF Mem.index = 0 THEN Address(0, 0)
               ELSE ChainValue(insts, env, Mem.index)
  IN AddAddress(AddAddress(Base, MulAddress(Index, 2 ^ Mem.shift)),
                SignedAddress(Mem.offset))

\* The multipliers that the Shift of a memory operand has absorbed: those
\* of the multiplications of the chain from the index Variable i upwards
\* that make up a shift of n.  0 stands for a shift that no multiplication
\* of the chain accounts for.
RECURSIVE Absorbed(_, _, _)
Absorbed(insts, i, n) ==
  IF n = 0 THEN {}
  ELSE LET Def == getDefinition(insts, i + 1)
       IN IF Def.op = "Mul" /\ Def.srcs[1] = VarOp(i)
          THEN LET Mult == Def.srcs[2].val
               IN IF \E k \in 0..n : 2 ^ k = Mult
                  THEN {Mult} \cup Absorbed(insts, i + 1,
                                            n - (CHOOSE k \in 0..n : 2 ^ k = Mult))
                  ELSE {Mult}
          ELSE {0}

\* C27: the memory operand that the address-mode optimization makes out of
\* a chain of assigns, adds of two Variables, multiplications by a constant
\* and additions and subtractions of a constant denotes, for every value of
\* the Variables that enter the chain, the address that the Variable at the
\* end of the chain holds, modulo 2^32; its Shift is at most 3 and stands
\* for multiplications by 1, 2, 4 and 8 only.
C27_FoldedAddressIsTheSame ==
  \A Mem \in FoldedOperands :
    /\ Mem.shift \in 0..3
    /\ Mem.index = 0 => Mem.shift = 0
    /\ Mem.index # 0 => Absorbed(Insts, Mem.index, Mem.shift) \subseteq {1, 2, 4, 8}
    /\ \A env \in ChainEnvs :
         AddressOf(Insts, env, Mem) = ChainValue(Insts, env, ChainAddr.v)

\* A chain was folded into base, index, the largest shift and an offset.
C27_Witness ==
  \E Mem \in FoldedOperands :
    /\ LastCall # NoCall
    /\ Mem.base # 0 /\ Mem.index # 0 /\ Mem.shift = 3 /\ Mem.offset # 0

\* The offset of a folded chain wrapped around.
C27_WitnessWrapped ==
  \E Mem \in FoldedOperands : LastCall # NoCall /\ Mem.offset = -2

(***************************************************************************)
(* Claims about the i64 multiplication of lowerArithmetic (SpecMul).       *)
(***************************************************************************)
MulCalled ==
  LastCall # NoCall /\ LastCall.call = "lowerArithmetic" /\ LastCall.op = "Mul"

\* C29: the sequence emitted for an i64 Mul leaves in dest.hi:dest.lo the
\* product of its operands modulo 2^64.
C29_MulComputesProduct ==
  MulCalled =>
    LastCall.dest = Halves(Times(Join(LastCall.a), Join(LastCall.b),
                                 DoubleWidth))

\* The sequence has run on two Variables in which both cross products and
\* the high half of the low product contribute to the high half.
C29_Witness ==
  /\ MulCalled
  /\ Insts[1].srcs = <<VarOp(2), VarOp(3)>>
  /\ LastCall.a = [lo |-> Bits, hi |-> {3, 17}]
  /\ LastCall.b = [lo |-> {0, WordWidth - 1}, hi |-> Bits]
  /\ LastCall.dest.hi # {}

(***************************************************************************)
(* Claims about lowerAlloca (SpecAllocaSize).                              *)
(***************************************************************************)
\* a <= b for the 32-bit unsigned numbers that a and b stand for.
ULessEq(a, b) == IF (a >= 0) = (b >= 0) THEN a <= b ELSE a >= 0

\* R is the smallest multiple of M that is at least S, in 32 bits unsigned.
NextMultiple(S, M, R) ==
  /\ R % M = 0
  /\ ULessEq(S, R)
  /\ R = 0 \/ ~ULessEq(S, WrapAdd32(R, -M))

\* The alloca at the head of the node has been lowered.
AllocaLowered == Insts[1].op = "Alloca" /\ Insts[1].deleted

\* The emitted instructions of the operation op on esp.
EspInsts(op) ==
  {i \in 2..Len(Insts) :
     /\ Insts[i].op = op /\ ~Insts[i].deleted
     /\ Insts[i].dest = VarOp(PhysicalRegisters[Reg_esp])}

\* C30: after lowerAlloca the function needs a frame pointer and an aligned
\* stack; esp is masked with -A before the subtraction exactly when the
\* requested alignment A exceeds 16; and for a constant size S the amount
\* subtracted from esp is the smallest multiple of max(A, 16) that is at
\* least S, for every 32-bit S and every power-of-two A.
C30_AllocaRoundsUp ==
  AllocaLowered =>
    LET A == Insts[1].align
        S == Insts[1].srcs[1]
    IN /\ IsEbpBasedFrame /\ NeedsStackAlignment
       /\ Cardinality(EspInsts("sub")) = 1
       /\ (A > X86_STACK_ALIGNMENT_BYTES) <=>
            \E i \in EspInsts("and") :
              /\ Insts[i].srcs[2] = ConstOp("i32", -A)
              /\ \A j \in EspInsts("sub") : i < j
       /\ S.k = "Const" =>
            \A j \in EspInsts("sub") :
              /\ Insts[j].srcs[2].k = "Const"
              /\ NextMultiple(S.val, Max(A, X86_STACK_ALIGNMENT_BYTES),
                              Insts[j].srcs[2].val)

\* The sum Value + Alignment - 1 of applyAlignment does not wrap around.
AllocaSizeFits ==
  LET S == Insts[1].srcs[1]
  IN S.k = "Const" =>
       ULessEq(S.val, WrapAdd32(S.val, Max(Insts[1].align,
                                           X86_STACK_ALIGNMENT_BYTES) - 1))

\* What holds of lowerAlloca for the sizes that fit.
C30_RoundsUpWhenSizeFits == AllocaSizeFits => C30_AllocaRoundsUp

====
